---- MODULE Spec2Model ----
(***************************************************************************)
(* A model of the "Ants Of Unusual Shape" simulation (mockersf/aous).      *)
(*                                                                         *)
(* Floating point traits are kept as fixed-point integers:                 *)
(*   life_expectancy       in units of 0.05 s      (30.0 s   = 600)        *)
(*   max_speed             in units of 0.0005      (0.25     = 500)        *)
(*   antennas              in units of 0.005       (8.0      = 1600)       *)
(*   wander_strength       in units of 0.01        (0.1      = 10)         *)
(*   mutation_improvement  in units of 0.05        (0.6      = 12)         *)
(*   spawn_per_wave        in units of 0.25        (10.0     = 40)         *)
(*   time                  in units of 0.01 s      (30 s     = 3000)       *)
(* With these units "+ mutation_improvement", "+ mutation_improvement/100" *)
(* and "+ mutation_improvement/10" of evolve_hills all add the same        *)
(* integer.  Positions are cells of a line through the colony origin, one  *)
(* cell being 1/DEF = 0.05 world units.                                    *)
(***************************************************************************)
EXTENDS Integers, Sequences, FiniteSets, TLC

VARIABLES
    state,        \* State<GameState>: "Splash", "Playing", "Lost", "Won"
    hill,         \* the AntHill resource
    data,         \* the GraphData resource
    bonuses,      \* the Bonuses resource
    hillEvents,   \* Events<HillEvents> not yet read by hill_events
    worldEvents,  \* Events<WorldEvents> not yet read by spawn_food / spawn_anteaters
    ants,         \* the Creature entities, a sequence of records
    heaps,        \* the FoodHeap entities: id -> record
    pellets,      \* the FoodPellet entities: id -> record
    anteaters,    \* the AntEater entities, a sequence of records
    cmds,         \* Commands queued by the systems of the running stage
    nextId,       \* next fresh entity id
    timers,       \* elapsed repeating timers, Time::delta, the systems' Locals
    now,          \* Time::seconds_since_startup
    frame,        \* frames run so far
    pc,           \* the systems still to run in this frame, in order
    fault,        \* "none", or the panic that stopped the program
    last          \* what the last system did, for the properties

ledgerVars == <<hill, data, bonuses, hillEvents, fault>>
worldVars  == <<ants, heaps, pellets, anteaters, cmds, nextId, worldEvents>>
clockVars  == <<timers, now, frame>>
vars == <<state, hill, data, bonuses, hillEvents, worldEvents, ants, heaps,
          pellets, anteaters, cmds, nextId, timers, now, frame, pc, fault, last>>

-----------------------------------------------------------------------------
(* Bounds of the model *)

MaxFrames == 4
FrameDelta == 2
StallDelta == 3000
MaxStalls == 1
MaxAnts == 2
MaxPos == 6
MaxHeaps == 2
MaxHeapPellets == 2
MaxAnteaters == 1
MaxWorldFrames == 4
MaxLedgerFrames == 1
MaxThreatFrames == 2
MaxWanderStrength == 110

-----------------------------------------------------------------------------
(* Program constants *)

DefaultFood == 50
DefaultQueenFood == 5
DefaultLifeExpectancy == 600
DefaultMaxSpeed == 500
DefaultWanderStrength == 10
DefaultAntennas == 1600
DefaultSpawnPerWave == 40
WaveUnit == 4
SpawnCost == 10
MinMaxSpeed == 300
MinLifeExpectancy == 200
MinAntennas == 600
MutationLifeExpectancy == 100
MutationMaxSpeed == 80
MutationWanderStrength == 1
MutationAntennas == 300
GathererGenesCap == 100
EvolvePeriod == 3000

Gene(l, s, w, a) ==
    [life_expectancy |-> l, max_speed |-> s, wander_strength |-> w, antennas |-> a]

AntHillDefault ==
    [food |-> DefaultFood,
     queen_food |-> DefaultQueenFood,
     gene |-> Gene(DefaultLifeExpectancy, DefaultMaxSpeed,
                   DefaultWanderStrength, DefaultAntennas),
     spawn_per_wave |-> DefaultSpawnPerWave,
     mutation_improvement |-> 0,
     gatherer_genes |-> <<>>]

Max(a, b) == IF a >= b THEN a ELSE b
Min(a, b) == IF a <= b THEN a ELSE b

-----------------------------------------------------------------------------
(* HillEvents *)

SpawnAnts(c) == [type |-> "SpawnAnts", count |-> c]
RemoveQueenFood(n) == [type |-> "RemoveQueenFood", amount |-> n]
ImproveMaxSpeed(b) == [type |-> "ImproveMaxSpeed", boost |-> b]
ImproveLifeExpectancy(b) == [type |-> "ImproveLifeExpectancy", boost |-> b]
ImproveAntennas(b) == [type |-> "ImproveAntennas", boost |-> b]
ImproveWave(b) == [type |-> "ImproveWave", boost |-> b]
ImproveMutation(b) == [type |-> "ImproveMutation", boost |-> b]
\* gene is <<>> for None and <<g>> for Some(g); ratio is in percent
ReplenishFood(c, r, g) == [type |-> "ReplenishFood", count |-> c, ratio |-> r, gene |-> g]

-----------------------------------------------------------------------------
(* Creatures *)

Wander == <<"Wander">>
PickFood(target, food) == <<"PickFood", target, food>>
HasFood == <<"HasFood">>

IsPickFood(s) == s[1] = "PickFood"

\* The noise drawn for a spawn: gen_range(-M..M) / 2 is in [-M/2, M/2).  The
\* model draws one vector for the creatures of a SpawnAnts event, from the
\* two extremes: the lowest value of every trait, the highest of every trait.
Noises ==
    { Gene(-MutationLifeExpectancy, -MutationMaxSpeed,
           -MutationWanderStrength, -MutationAntennas),
      Gene(MutationLifeExpectancy - 1, MutationMaxSpeed - 1,
           MutationWanderStrength - 1, MutationAntennas - 1) }

MutatedGene(g, n) ==
    Gene(g.life_expectancy + n.life_expectancy,
         g.max_speed + n.max_speed,
         g.wander_strength + n.wander_strength,
         g.antennas + n.antennas)

\* NewCreature with a fault: the creature steers with the wander_strength of
\* its own genome
NewCreatureOwnWander(g, n, t) ==
    [id |-> 0,
     pos |-> 0,
     wander_strength |-> MutatedGene(g, n).wander_strength,
     state |-> Wander,
     birth |-> t,
     gene |-> MutatedGene(g, n)]

\* The entity id is given when the spawn command is applied
NewCreature(g, n, t) ==
    [id |-> 0,
     pos |-> 0,
     wander_strength |-> g.wander_strength,
     state |-> Wander,
     birth |-> t,
     gene |-> MutatedGene(g, n)]

-----------------------------------------------------------------------------
(* ant_hill.rs: hill_events, one arm per event *)

SpawnThreshold == 10

ApplyRemoveQueenFood(h, consumed) ==
    [h EXCEPT !.queen_food = @ - consumed]

ApplyImproveMaxSpeed(h, boost) ==
    [h EXCEPT !.gene.max_speed = Max(@ + boost, MinMaxSpeed)]

ApplyImproveLifeExpectancy(h, boost) ==
    [h EXCEPT !.gene.life_expectancy = Max(@ + boost, MinLifeExpectancy)]

ApplyImproveAntennas(h, boost) ==
    [h EXCEPT !.gene.antennas = Max(@ + boost, MinAntennas)]

ApplyImproveWave(h, boost) ==
    [h EXCEPT !.spawn_per_wave = @ + boost]

ApplyImproveMutation(h, boost) ==
    [h EXCEPT !.mutation_improvement = @ + boost]

\* gen_bool(ratio) once per unit: how many of count units can go to the queen
QueenShares(count, ratio) ==
    IF ratio <= 0 THEN {0}
    ELSE IF ratio >= 100 THEN {count}
    ELSE 0..count

\* PushGene with a fault: a full queue keeps its entries and drops the new one
PushGeneDropNewest(genes, g) ==
    LET pushed == genes \o g
    IN  IF Len(pushed) > GathererGenesCap THEN SubSeq(pushed, 1, GathererGenesCap)
        ELSE pushed

PushGene(genes, g) ==
    LET pushed == genes \o g
    IN  IF Len(pushed) > GathererGenesCap THEN Tail(pushed) ELSE pushed

\* toQueen of the count units went to queen_food, the others to food
ApplyReplenishFood(h, count, toQueen, g) ==
    [h EXCEPT !.queen_food = @ + toQueen,
              !.food = @ + (count - toQueen),
              !.gatherer_genes = PushGene(@, g)]

\* SpawnedCreatures with a fault: a wave has at least one creature
SpawnedAtLeastOne(h, count, n, t) ==
    [i \in 1..Max(count, 1) |-> NewCreature(h.gene, n, t)]

\* The creatures one SpawnAnts event spawns
SpawnedCreatures(h, count, n, t) ==
    [i \in 1..count |-> NewCreature(h.gene, n, t)]

\* st = [hill, total_ants, spawned, overflow]: the resources hill_events writes
HillEventOutcomes(st, ev, t) ==
    CASE ev.type = "SpawnAnts" ->
            { [st EXCEPT !.total_ants = @ + ev.count,
                         !.spawned = @ \o SpawnedCreatures(st.hill, ev.count, n, t)]
              : n \in Noises }
      [] ev.type = "RemoveQueenFood" ->
            { [st EXCEPT !.hill = ApplyRemoveQueenFood(@, ev.amount),
                         !.overflow = ev.amount > st.hill.queen_food] }
      [] ev.type = "ImproveMaxSpeed" ->
            { [st EXCEPT !.hill = ApplyImproveMaxSpeed(@, ev.boost)] }
      [] ev.type = "ImproveLifeExpectancy" ->
            { [st EXCEPT !.hill = ApplyImproveLifeExpectancy(@, ev.boost)] }
      [] ev.type = "ImproveAntennas" ->
            { [st EXCEPT !.hill = ApplyImproveAntennas(@, ev.boost)] }
      [] ev.type = "ImproveWave" ->
            { [st EXCEPT !.hill = ApplyImproveWave(@, ev.boost)] }
      [] ev.type = "ImproveMutation" ->
            { [st EXCEPT !.hill = ApplyImproveMutation(@, ev.boost)] }
      [] ev.type = "ReplenishFood" ->
            { [st EXCEPT !.hill = ApplyReplenishFood(@, ev.count, q, ev.gene)]
              : q \in QueenShares(ev.count, ev.ratio) }

\* for event in events.iter(): an overflowing subtraction ends the loop (the
\* debug build panics; the release build goes on with queen_food wrapped
\* around to 2^32 + queen_food, which the model records as the negative value)
RECURSIVE HillEventsFold(_, _, _)
HillEventsFold(sts, evs, t) ==
    IF evs = <<>> THEN sts
    ELSE HillEventsFold(
            UNION { IF st.overflow THEN {st} ELSE HillEventOutcomes(st, Head(evs), t)
                    : st \in sts },
            Tail(evs), t)

HillEventsResults(h, total, evs, t) ==
    HillEventsFold({[hill |-> h, total_ants |-> total, spawned |-> <<>>,
                     overflow |-> FALSE]}, evs, t)

-----------------------------------------------------------------------------
(* ant_hill.rs: use_food *)

\* UseFoodStep with a fault: the threshold is compared strictly
UseFoodStrict(h) ==
    IF h.food > SpawnThreshold
    THEN [hill |-> [h EXCEPT !.food = @ - SpawnCost],
          events |-> <<SpawnAnts(h.spawn_per_wave \div WaveUnit)>>]
    ELSE [hill |-> h, events |-> <<>>]

UseFoodStep(h) ==
    IF h.food >= SpawnThreshold
    THEN [hill |-> [h EXCEPT !.food = @ - SpawnCost],
          events |-> <<SpawnAnts(h.spawn_per_wave \div WaveUnit)>>]
    ELSE [hill |-> h, events |-> <<>>]

-----------------------------------------------------------------------------
(* ant_hill.rs: evolve_hills *)

\* one step of the fold: the running mean over count + 1 genes.  The division
\* of the fixed-point values rounds down where the floats round to nearest.
\* MeanStep with a fault: the count of the genomes folded so far is left out
MeanStepUncounted(current, count, g) ==
    Gene((current.life_expectancy + g.life_expectancy) \div 2,
         (current.max_speed + g.max_speed) \div 2,
         (current.wander_strength + g.wander_strength) \div 2,
         (current.antennas + g.antennas) \div 2)

MeanStep(current, count, g) ==
    Gene((current.life_expectancy * count + g.life_expectancy) \div (count + 1),
         (current.max_speed * count + g.max_speed) \div (count + 1),
         (current.wander_strength * count + g.wander_strength) \div (count + 1),
         (current.antennas * count + g.antennas) \div (count + 1))

\* The fold of evolve_hills over the queue, from the front to the back: the
\* queue is folded half by half, which is the same fold
RECURSIVE MeanGene(_, _, _)
MeanGene(current, count, genes) ==
    IF genes = <<>> THEN current
    ELSE IF Len(genes) = 1 THEN MeanStep(current, count, genes[1])
    ELSE LET half == Len(genes) \div 2
             first == MeanGene(current, count, SubSeq(genes, 1, half))
         IN  \* the fold over the first half has its value before the fold
             \* goes on over the second half
             IF first = first
             THEN MeanGene(first, count + half,
                           SubSeq(genes, half + 1, Len(genes)))
             ELSE first

\* Evolved with a fault: the running mean starts from a zero genome
EvolvedFromZero(h) ==
    LET mean_gene == MeanGene(MeanStep(Gene(0, 0, 0, 0), 1, h.gene), 2,
                              h.gatherer_genes)
    IN  [h EXCEPT !.gene =
            Gene(mean_gene.life_expectancy + h.mutation_improvement,
                 mean_gene.max_speed + h.mutation_improvement,
                 mean_gene.wander_strength,
                 mean_gene.antennas + h.mutation_improvement)]

\* Evolved with a fault: the queue of returned genomes is cleared
EvolvedClearing(h) ==
    LET mean_gene == MeanGene(h.gene, 1, h.gatherer_genes)
    IN  [h EXCEPT !.gene =
            Gene(mean_gene.life_expectancy + h.mutation_improvement,
                 mean_gene.max_speed + h.mutation_improvement,
                 mean_gene.wander_strength,
                 mean_gene.antennas + h.mutation_improvement),
                  !.gatherer_genes = <<>>]

Evolved(h) ==
    LET mean_gene == MeanGene(h.gene, 1, h.gatherer_genes)
    IN  [h EXCEPT !.gene =
            Gene(mean_gene.life_expectancy + h.mutation_improvement,
                 mean_gene.max_speed + h.mutation_improvement,
                 mean_gene.wander_strength,
                 mean_gene.antennas + h.mutation_improvement)]

\* TimerTick with a fault: a timer that finishes starts again from 0
TimerTickReset(elapsed, duration, dt) ==
    <<IF elapsed + dt >= duration THEN 0 ELSE elapsed + dt, elapsed + dt >= duration>>

\* Timer::tick of a repeating timer: <<elapsed afterwards, just_finished>>
TimerTick(elapsed, duration, dt) ==
    <<(elapsed + dt) % duration, elapsed + dt >= duration>>

-----------------------------------------------------------------------------
(* ui.rs: GraphData, Bonuses *)

HistorySize == 240
SamplePeriod == 100
SampleElapsed == 99
WinQueenFood == 200
WinAnts == 100
ApocalypseTime == 54000
ApocalypseAnts == 1500
ApocalypseTotal == 6000
Border == 40

GraphDataFromAnthill(h, t) ==
    [nb_ants |-> [i \in 1..HistorySize |-> 0],
     queen_food |-> 0,
     food |-> h.food,
     genome_speed |-> h.gene.max_speed,
     genome_expectancy |-> h.gene.life_expectancy,
     genome_antennas |-> h.gene.antennas,
     wave |-> h.spawn_per_wave,
     max_ants |-> 0,
     total_ants |-> 0,
     start_time |-> t,
     end_time |-> t,
     can_summon_food |-> FALSE,
     appocalypse |-> FALSE]

BonusesDefault ==
    [spawn_cost |-> 10, spawn |-> 15,
     improve_wave_cost |-> 10, improve_wave |-> 7,
     improve_speed_cost |-> 5, improve_speed |-> 10,
     improve_life_cost |-> 5, improve_life |-> 100,
     improve_antennas_cost |-> 5, improve_antennas |-> 200,
     improve_mutation_cost |-> 15, improve_mutation |-> 12]

\* Positions of world events are <<x, z>> in cells
SpawnFood(nearby) == [type |-> "SpawnFood", nearby |-> nearby, position |-> <<0, 0>>]
SpawnAntEater(position) == [type |-> "SpawnAntEater", nearby |-> FALSE, position |-> position]

\* The buttons of the "Actions" grid
Buttons == {"spawn", "wave", "speed", "life", "antennas", "mutation", "food"}

\* ui.set_enabled(false) when data.queen_food < cost: the button cannot be clicked
ButtonEnabled(d, b, button) ==
    CASE button = "spawn" -> d.queen_food >= b.spawn_cost
      [] button = "wave" -> d.queen_food >= b.improve_wave_cost
      [] button = "speed" -> d.queen_food >= b.improve_speed_cost
      [] button = "life" -> d.queen_food >= b.improve_life_cost
      [] button = "antennas" -> d.queen_food >= b.improve_antennas_cost
      [] button = "mutation" -> d.queen_food >= b.improve_mutation_cost
      [] button = "food" -> d.can_summon_food

\* What a click sends and how it changes the Bonuses and GraphData resources
Click(d, b, button) ==
    CASE button = "spawn" ->
            [hill_events |-> <<SpawnAnts(b.spawn), RemoveQueenFood(b.spawn_cost)>>,
             world_events |-> <<>>,
             bonuses |-> [b EXCEPT !.spawn = @ + 1, !.spawn_cost = @ + 1],
             data |-> d]
      [] button = "wave" ->
            [hill_events |-> <<ImproveWave(b.improve_wave),
                               RemoveQueenFood(b.improve_wave_cost)>>,
             world_events |-> <<>>,
             bonuses |-> [b EXCEPT !.spawn = @ + 2, !.improve_wave_cost = @ + 15],
             data |-> d]
      [] button = "speed" ->
            [hill_events |-> <<ImproveMaxSpeed(b.improve_speed),
                               RemoveQueenFood(b.improve_speed_cost)>>,
             world_events |-> <<>>,
             bonuses |-> [b EXCEPT !.improve_speed_cost = @ + 5, !.improve_speed = @ + 4],
             data |-> d]
      [] button = "life" ->
            [hill_events |-> <<ImproveLifeExpectancy(b.improve_life),
                               RemoveQueenFood(b.improve_life_cost)>>,
             world_events |-> <<>>,
             bonuses |-> [b EXCEPT !.improve_life_cost = @ + 5, !.improve_life = @ + 40],
             data |-> d]
      [] button = "antennas" ->
            [hill_events |-> <<ImproveAntennas(b.improve_antennas),
                               RemoveQueenFood(b.improve_antennas_cost)>>,
             world_events |-> <<>>,
             bonuses |-> [b EXCEPT !.improve_antennas_cost = @ + 5,
                                   !.improve_antennas = @ + 200],
             data |-> d]
      [] button = "mutation" ->
            [hill_events |-> <<ImproveMutation(b.improve_mutation),
                               RemoveQueenFood(b.improve_mutation_cost)>>,
             world_events |-> <<>>,
             bonuses |-> [b EXCEPT !.improve_mutation_cost = @ + 15,
                                   !.improve_mutation = @ + 3],
             data |-> d]
      [] button = "food" ->
            [hill_events |-> <<>>,
             world_events |-> <<SpawnFood(TRUE), SpawnAntEater(<<Border, Border>>),
                                SpawnAntEater(<<Border, -Border>>),
                                SpawnAntEater(<<-Border, Border>>),
                                SpawnAntEater(<<-Border, -Border>>)>>,
             bonuses |-> b,
             data |-> [d EXCEPT !.can_summon_food = FALSE]]

\* Sampled with a fault: the oldest sample is never evicted
SampledKeepingAll(nb_ants, count) == Append(nb_ants, count)

\* data.nb_ants.push_back(creature_count), and pop_front() when the history
\* has grown beyond HISTORY_SIZE
Sampled(nb_ants, count) ==
    LET pushed == Append(nb_ants, count)
    IN  IF Len(pushed) > HistorySize THEN Tail(pushed) ELSE pushed

\* The perimeter waypoint of the apocalypse for the corner counter after its
\* increment: <<x, z>> in units of BORDER / 2
WaypointHalves(corner) ==
    CASE corner = 1 -> <<2, 2>>    [] corner = 2 -> <<2, 1>>
      [] corner = 3 -> <<2, 0>>    [] corner = 4 -> <<2, -1>>
      [] corner = 5 -> <<2, -2>>   [] corner = 6 -> <<1, -2>>
      [] corner = 7 -> <<0, -2>>   [] corner = 8 -> <<-1, -2>>
      [] corner = 9 -> <<-2, -2>>  [] corner = 10 -> <<-2, -1>>
      [] corner = 11 -> <<-2, 0>>  [] corner = 12 -> <<-2, 1>>
      [] corner = 13 -> <<-2, 2>>  [] corner = 14 -> <<-1, 2>>
      [] corner = 15 -> <<0, 2>>   [] OTHER -> <<1, 2>>

Waypoint(corner) ==
    <<WaypointHalves(corner)[1] * (Border \div 2), WaypointHalves(corner)[2] * (Border \div 2)>>

\* SampleTick with a fault: the winning condition is tested before the losing
SampleTickWonFirst(d, h, st, count, todo, t, summon, corner) ==
    [data |-> [d EXCEPT !.max_ants = IF count > @ THEN count ELSE @,
                        !.nb_ants = Sampled(@, count)],
     state |-> IF h.queen_food >= WinQueenFood \/ (count > WinAnts /\ ~todo)
               THEN "Won"
               ELSE IF d.max_ants > 0 /\ count = 0 THEN "Lost" ELSE st,
     corner |-> corner,
     world_events |-> <<>>]

\* SampleTick with a fault: the apocalypse is not kept from one tick to the next
SampleTickUnlatched(d, h, st, count, todo, t, summon, corner) ==
    LET st1 == IF d.max_ants > 0 /\ count = 0 THEN "Lost"
               ELSE IF h.queen_food >= WinQueenFood \/ (count > WinAnts /\ ~todo)
                    THEN "Won" ELSE st
        d1 == [d EXCEPT !.end_time = IF st1 # st THEN t ELSE @,
                        !.max_ants = IF count > @ THEN count ELSE @,
                        !.nb_ants = Sampled(@, count),
                        !.can_summon_food = @ \/ summon,
                        !.appocalypse = t - d.start_time > ApocalypseTime
                                          \/ count > ApocalypseAnts
                                          \/ d.total_ants > ApocalypseTotal]
        c1 == IF d1.appocalypse THEN (IF corner + 1 > 15 THEN 0 ELSE corner + 1)
              ELSE corner
    IN  [data |-> d1, state |-> st1, corner |-> c1,
         world_events |-> IF d1.appocalypse
                          THEN <<SpawnAntEater(Waypoint(corner + 1))>> ELSE <<>>]

\* The sample tick of update_graph_data.  todo: some FoodPellet or AntEater
\* exists.  summon: the gen_bool(0.005) draw.  Gives the new GraphData, the
\* new game state, the corner counter and the world events sent.
SampleTick(d, h, st, count, todo, t, summon, corner) ==
    LET st1 == IF d.max_ants > 0 /\ count = 0 THEN "Lost"
               ELSE IF h.queen_food >= WinQueenFood \/ (count > WinAnts /\ ~todo)
                    THEN "Won" ELSE st
        d1 == [d EXCEPT !.end_time = IF st1 # st THEN t ELSE @,
                        !.max_ants = IF count > @ THEN count ELSE @,
                        !.nb_ants = Sampled(@, count),
                        !.can_summon_food = @ \/ summon,
                        !.appocalypse = @ \/ t - d.start_time > ApocalypseTime
                                          \/ count > ApocalypseAnts
                                          \/ d.total_ants > ApocalypseTotal]
        c1 == IF d1.appocalypse THEN (IF corner + 1 > 15 THEN 0 ELSE corner + 1)
              ELSE corner
    IN  [data |-> d1, state |-> st1, corner |-> c1,
         world_events |-> IF d1.appocalypse
                          THEN <<SpawnAntEater(Waypoint(corner + 1))>> ELSE <<>>]

\* The copies update_graph_data takes of the AntHill on every frame
Mirror(d, h) ==
    [d EXCEPT !.queen_food = h.queen_food,
              !.genome_speed = h.gene.max_speed,
              !.genome_expectancy = h.gene.life_expectancy,
              !.genome_antennas = h.gene.antennas,
              !.food = h.food,
              !.wave = h.spawn_per_wave]

-----------------------------------------------------------------------------
(* Entities, and the Commands a stage applies when its systems have run *)

\* ObstacleMap: the cells that close the line on both sides, and the cells
\* of the terrain of the run that lie on the line (pc.walls, when the run has
\* drawn a terrain)
Walls == IF "walls" \in DOMAIN pc THEN pc.walls ELSE {}
Obstacles == {-1, MaxPos + 1} \cup Walls
is_obstacle(cell) == cell \in Obstacles

Ids(es) == {es[i].id : i \in DOMAIN es}
Without(es, ids) == SelectSeq(es, LAMBDA e : e.id \notin ids)
Entity(es, id) == es[CHOOSE i \in DOMAIN es : es[i].id = id]

AntEaterWander == 20

\* A heap of the model holds 1..MaxHeapPellets pellets and stands for a heap
\* of 80 to 99: start_count is the count of the heap it stands for
MinStartCount == 80
MaxStartCount == 99
StartCount(n) ==
    IF n >= MaxHeapPellets THEN MaxStartCount
    ELSE MinStartCount
           + ((n - 1) * (MaxStartCount - MinStartCount)) \div (MaxHeapPellets - 1)

\* The duration of the AntEaterTimer of a heap, in time units, for the
\* FoodDelay.summon_anteater of the frame the heap goes bad in
SummonOffset == 100
Second == 100
\* SummonDelay with a fault: the start count is added to the delay
SummonDelayRising(summon_anteater, start_count) ==
    summon_anteater + start_count * Second

SummonDelay(summon_anteater, start_count) ==
    summon_anteater + (SummonOffset - start_count) * Second

\* gone_bad: the FoodGoneBadTimer has finished.  anteater_timer: "none" while
\* the heap has no AntEaterTimer, then "running", then "finished".
NewHeap(id, pos, n) ==
    [id |-> id, pos |-> pos, children |-> [i \in 1..n |-> id + i],
     start_count |-> StartCount(n), gone_bad |-> FALSE, warning |-> 0,
     anteater_timer |-> "none", summon_delay |-> 0, summon_elapsed |-> 0]

NewPellets(id, pos, offsets) ==
    [i \in 1..Len(offsets) |->
        [id |-> id + i, pos |-> pos + offsets[i], targeted |-> FALSE, heap |-> id]]

NewAntEater(id, pos) ==
    [id |-> id, pos |-> pos, wander_strength |-> AntEaterWander,
     food_picked |-> 0, ant_killed |-> 0, children |-> <<>>]

\* The world is the record of the entity collections, the next fresh id and
\* the fault.  One command applied to it:
ApplyCommand(w, c) ==
    CASE c.op = "spawn" ->
            [w EXCEPT !.ants = Append(@, [c.creature EXCEPT !.id = w.nextId]),
                      !.nextId = @ + 1]
      [] c.op = "spawn_heap" ->
            [w EXCEPT !.heaps = Append(@, NewHeap(w.nextId, c.pos, Len(c.offsets))),
                      !.pellets = @ \o NewPellets(w.nextId, c.pos, c.offsets),
                      !.nextId = @ + 1 + Len(c.offsets)]
      [] c.op = "spawn_anteater" ->
            [w EXCEPT !.anteaters = Append(@, NewAntEater(w.nextId, c.pos)),
                      !.nextId = @ + 1]
      [] c.op = "warn" ->
            \* with_children(Warning sign).insert(AntEaterTimer)
            [w EXCEPT !.heaps = [i \in DOMAIN @ |->
                          IF w.heaps[i].id = c.id
                          THEN [@[i] EXCEPT !.children = Append(@, w.nextId),
                                            !.warning = w.nextId,
                                            !.anteater_timer = "running",
                                            !.summon_delay = c.delay]
                          ELSE @[i]],
                      !.nextId = @ + 1]
      [] c.op = "despawn" ->
            \* not recursive: the parent's Children keeps the id
            [w EXCEPT !.pellets = Without(@, {c.id}),
                      !.anteaters = [i \in DOMAIN @ |->
                          [@[i] EXCEPT !.children =
                              SelectSeq(@, LAMBDA k : k # c.id)]]]
      [] c.op = "despawn_recursive" ->
            [w EXCEPT !.ants = Without(@, {c.id}),
                      !.anteaters = Without(@, {c.id}),
                      !.heaps = Without(@, {c.id}),
                      !.pellets = SelectSeq(@, LAMBDA e : e.heap # c.id)]
      [] c.op = "eat" ->
            \* insert(Parent(anteater)).remove::<Transform>().remove::<FoodPellet>()
            IF c.id \notin Ids(w.pellets)
                   /\ \A i \in DOMAIN w.anteaters :
                         \A k \in DOMAIN w.anteaters[i].children :
                            w.anteaters[i].children[k] # c.id
            THEN [w EXCEPT !.fault = "no_entity"]
            ELSE [w EXCEPT
                    !.pellets = Without(@, {c.id}),
                    !.heaps = [i \in DOMAIN @ |->
                        [@[i] EXCEPT !.children = SelectSeq(@, LAMBDA k : k # c.id)]],
                    !.anteaters = [i \in DOMAIN @ |->
                        [@[i] EXCEPT !.children =
                            IF w.anteaters[i].id = c.anteater
                            THEN Append(SelectSeq(@, LAMBDA k : k # c.id), c.id)
                            ELSE SelectSeq(@, LAMBDA k : k # c.id)]]]

RECURSIVE ApplyCommands(_, _)
ApplyCommands(w, cs) ==
    IF cs = <<>> \/ w.fault # "none" THEN w
    ELSE ApplyCommands(ApplyCommand(w, Head(cs)), Tail(cs))

World ==
    [ants |-> ants, heaps |-> heaps, pellets |-> pellets, anteaters |-> anteaters,
     nextId |-> nextId, fault |-> fault]

Runs(sys) == state = "Playing" /\ fault = "none" /\ pc.todo # <<>> /\ Head(pc.todo) = sys

Done == [pc EXCEPT !.todo = Tail(@)]

\* The end of a stage: its systems' Commands are applied in the order queued
apply_buffers ==
    /\ Runs("apply_buffers")
    /\ LET w == ApplyCommands(World, cmds)
       IN  /\ ants' = w.ants
           /\ heaps' = w.heaps
           /\ pellets' = w.pellets
           /\ anteaters' = w.anteaters
           /\ nextId' = w.nextId
           /\ fault' = w.fault
    /\ cmds' = <<>>
    /\ pc' = Done
    /\ last' = [sys |-> "apply_buffers"]
    /\ UNCHANGED <<state, hill, data, bonuses, hillEvents, worldEvents, timers,
                   now, frame>>

-----------------------------------------------------------------------------
(* The systems of the colony ledger and of the panel, in the order their   *)
(* plugins are added (ant_hill before ui)                                  *)

SplashTime == 70
FoodPeriod == 1900
FoodElapsed == 1881
\* Time::delta of a frame: a frame of FrameDelta, or one that stalled
Deltas(tm) == IF tm.stalls < MaxStalls THEN {FrameDelta, StallDelta} ELSE {FrameDelta}

Clocked(tm, dt) ==
    [tm EXCEPT !.delta = dt, !.stalls = IF dt = StallDelta THEN @ + 1 ELSE @]

LedgerSchedule ==
    <<"hill_events", "use_food", "evolve_hills", "overall_ui",
      "update_graph_data", "apply_buffers">>

\* food.rs: FoodDelay and the timer of faster_decay, in units of 0.01 s
DefaultGoneBad == 4500
DefaultSummonAnteater == 1500
DecayPeriod == 3000
GoneBadStep == 500
MinGoneBad == 1000
SummonAnteaterStep == 200
MinSummonAnteater == 500

\* The system-local timers (evolve, sample, decay), the apocalypse corner, the
\* FoodTimer (food), the FoodDelay (gone_bad, summon_anteater) and Time (delta)
TimersInit ==
    [evolve |-> 0, sample |-> SampleElapsed, food |-> FoodElapsed,
     delta |-> 0, stalls |-> 0, corner |-> 0,
     decay |-> 0, gone_bad |-> DefaultGoneBad,
     summon_anteater |-> DefaultSummonAnteater]

Init ==
    /\ state = "Splash"
    /\ hill = AntHillDefault
    /\ data = GraphDataFromAnthill(AntHillDefault, 0)
    /\ bonuses = BonusesDefault
    /\ hillEvents = <<>>
    /\ worldEvents = <<>>
    /\ ants = <<>>
    /\ heaps = <<>>
    /\ pellets = <<>>
    /\ anteaters = <<>>
    /\ cmds = <<>>
    /\ nextId = 1
    /\ timers = TimersInit
    /\ now = 0
    /\ frame = 0
    /\ pc = [todo |-> <<>>, schedule |-> LedgerSchedule, limit |-> MaxFrames]
    /\ fault = "none"
    /\ last = [sys |-> "none"]

\* Restarted with a fault: the FoodDelay of the session before is kept
RestartedKeepingDelay(tm, dt) ==
    [Clocked(tm, dt) EXCEPT !.food = FoodElapsed]

\* restart_game: FoodDelay::default() and the FoodTimer of 19 s at 99 % are
\* inserted; the timers that are system-local state are not touched
Restarted(tm, dt) ==
    [Clocked(tm, dt) EXCEPT !.food = FoodElapsed,
                            !.gone_bad = DefaultGoneBad,
                            !.summon_anteater = DefaultSummonAnteater]

\* splash.rs done, then on_enter(Playing): restart_game, whose inserts are
\* applied before the first on_update(Playing) pass
restart_game ==
    /\ state = "Splash"
    /\ \E dt \in Deltas(timers) : timers' = Restarted(timers, dt)
    /\ now' = now + SplashTime
    /\ state' = "Playing"
    /\ hill' = AntHillDefault
    /\ data' = GraphDataFromAnthill(AntHillDefault, now')
    /\ bonuses' = BonusesDefault
    /\ worldEvents' = Append(worldEvents, SpawnFood(TRUE))
    /\ pc' = [pc EXCEPT !.todo = pc.schedule]
    /\ last' = [sys |-> "restart_game"]
    /\ UNCHANGED <<hillEvents, ants, heaps, pellets, anteaters, cmds, nextId,
                   frame, fault>>

SpawnCommands(creatures) ==
    [i \in 1..Len(creatures) |-> [op |-> "spawn", creature |-> creatures[i]]]

hill_events ==
    /\ Runs("hill_events")
    /\ \E r \in HillEventsResults(hill, data.total_ants, hillEvents, now) :
          /\ hill' = r.hill
          /\ data' = [data EXCEPT !.total_ants = r.total_ants]
          /\ cmds' = cmds \o SpawnCommands(r.spawned)
          /\ fault' = IF r.overflow THEN "underflow" ELSE fault
    /\ last' = [sys |-> "hill_events", hill |-> hill, events |-> hillEvents,
                total_ants |-> data.total_ants, cmds |-> cmds]
    /\ hillEvents' = <<>>
    /\ pc' = Done
    /\ UNCHANGED <<state, bonuses, worldEvents, ants, heaps, pellets, anteaters,
                   nextId, timers, now, frame>>

use_food ==
    /\ Runs("use_food")
    /\ LET r == UseFoodStep(hill)
       IN  /\ hill' = r.hill
           /\ hillEvents' = hillEvents \o r.events
    /\ last' = [sys |-> "use_food", hill |-> hill, events |-> hillEvents]
    /\ pc' = Done
    /\ UNCHANGED <<state, data, bonuses, worldEvents, ants, heaps, pellets,
                   anteaters, cmds, nextId, timers, now, frame, fault>>

evolve_hills ==
    /\ Runs("evolve_hills")
    /\ LET t == TimerTick(timers.evolve, EvolvePeriod, timers.delta)
       IN  /\ timers' = [timers EXCEPT !.evolve = t[1]]
           /\ hill' = IF t[2] THEN Evolved(hill) ELSE hill
           /\ last' = [sys |-> "evolve_hills", hill |-> hill, fired |-> t[2]]
    /\ pc' = Done
    /\ UNCHANGED <<state, data, bonuses, hillEvents, worldEvents, ants, heaps,
                   pellets, anteaters, cmds, nextId, now, frame, fault>>

\* The player clicks one enabled button of the panel, or none
overall_ui ==
    /\ Runs("overall_ui")
    /\ \E button \in Buttons \cup {"none"} :
          IF button = "none"
          THEN /\ UNCHANGED <<data, bonuses, hillEvents, worldEvents>>
               /\ last' = [sys |-> "overall_ui", button |-> button]
          ELSE /\ ButtonEnabled(data, bonuses, button)
               /\ LET c == Click(data, bonuses, button)
                  IN  /\ data' = c.data
                      /\ bonuses' = c.bonuses
                      /\ hillEvents' = hillEvents \o c.hill_events
                      /\ worldEvents' = worldEvents \o c.world_events
               /\ last' = [sys |-> "overall_ui", button |-> button]
    /\ pc' = Done
    /\ UNCHANGED <<state, hill, ants, heaps, pellets, anteaters, cmds, nextId,
                   timers, now, frame, fault>>

update_graph_data ==
    /\ Runs("update_graph_data")
    /\ LET t == TimerTick(timers.sample, SamplePeriod, timers.delta)
           todo == pellets # <<>> \/ anteaters # <<>>
       IN  IF t[2]
           THEN \E summon \in BOOLEAN :
                   LET r == SampleTick(data, hill, state, Len(ants), todo, now,
                                       summon /\ ~data.can_summon_food, timers.corner)
                   IN  /\ data' = Mirror(r.data, hill)
                       /\ state' = r.state
                       /\ worldEvents' = worldEvents \o r.world_events
                       /\ timers' = [timers EXCEPT !.sample = t[1],
                                                   !.corner = r.corner]
           ELSE /\ data' = Mirror(data, hill)
                /\ timers' = [timers EXCEPT !.sample = t[1]]
                /\ UNCHANGED <<state, worldEvents>>
    /\ last' = [sys |-> "update_graph_data",
                fired |-> TimerTick(timers.sample, SamplePeriod, timers.delta)[2],
                data |-> data]
    /\ pc' = Done
    /\ UNCHANGED <<hill, bonuses, hillEvents, ants, heaps, pellets, anteaters,
                   cmds, nextId, now, frame, fault>>

\* The end of a frame and the First stage of the next: Time is updated.  The
\* world events nobody is left to read are dropped by Events::update.
end_frame ==
    /\ state = "Playing" /\ fault = "none" /\ pc.todo = <<>>
    /\ frame < pc.limit
    /\ \E dt \in Deltas(timers) :
          /\ timers' = Clocked(timers, dt)
          /\ now' = now + dt
    /\ worldEvents' = IF "spawn_food" \in {pc.schedule[i] : i \in DOMAIN pc.schedule}
                      THEN worldEvents ELSE <<>>
    /\ frame' = frame + 1
    /\ pc' = [pc EXCEPT !.todo = pc.schedule]
    /\ last' = [sys |-> "end_frame"]
    /\ UNCHANGED <<state, hill, data, bonuses, hillEvents, ants, heaps, pellets,
                   anteaters, cmds, nextId, fault>>

Next ==
    \/ restart_game
    \/ hill_events
    \/ use_food
    \/ evolve_hills
    \/ overall_ui
    \/ update_graph_data
    \/ apply_buffers
    \/ end_frame

Spec == Init /\ [][Next]_vars

-----------------------------------------------------------------------------
(* The world: foragers, heaps, pellets and predators on the line of cells  *)
(* 0..MaxPos.  Squared distances are in cells: x world units squared are   *)
(* x * DEF * DEF cells squared.                                            *)

NearInit == 4000
SensingSq == 25
PickSq == 1
KillSq == 10
DeathSq == 2
AntWander == 10
BlockedWander == 50
AntEaterMoved == 50
PredatorLifePenalty == 10
PredatorSpeedPenalty == 2
KillsPerFood == 10
PelletsPerFood == 20
KillsRatio == 80
PelletsRatio == 50
LifeUnit == 5
FoodEventsPerPop == 4

DistSq(a, b) == (a - b) * (a - b)
Sign(x) == IF x > 0 THEN 1 ELSE IF x < 0 THEN -1 ELSE 0

RECURSIVE Flatten(_)
Flatten(ss) == IF ss = <<>> THEN <<>> ELSE Head(ss) \o Flatten(Tail(ss))

Targeted(ps) == {ps[i].id : i \in {k \in DOMAIN ps : ps[k].targeted}}

\* Release with a fault: no flag is reset
ReleaseNothing(ps, ids) == ps

\* pellet.targeted = false, for the pellets of ids that foods.get_mut finds
Release(ps, ids) ==
    [i \in DOMAIN ps |-> IF ps[i].id \in ids THEN [ps[i] EXCEPT !.targeted = FALSE]
                         ELSE ps[i]]

Claim(ps, id) ==
    [i \in DOMAIN ps |-> IF ps[i].id = id THEN [ps[i] EXCEPT !.targeted = TRUE]
                         ELSE ps[i]]

\* ants.rs spawn_ant: the Creature a pressed Space key spawns.  The Creature
\* of ants.rs has no birth and no gene: the record is completed with the
\* spawn time and the default genome.
KeyCreature(t) ==
    [id |-> 0, pos |-> 0, wander_strength |-> AntWander, state |-> Wander,
     birth |-> t, gene |-> AntHillDefault.gene]

Pending(op) == Len(SelectSeq(cmds, LAMBDA c : c.op = op))

spawn_ant ==
    /\ Runs("spawn_ant")
    /\ \E pressed \in BOOLEAN :
          IF pressed
          THEN /\ Len(ants) + Pending("spawn") < MaxAnts
               /\ cmds' = Append(cmds, [op |-> "spawn", creature |-> KeyCreature(now)])
               /\ last' = [sys |-> "spawn_ant", pressed |-> TRUE]
          ELSE /\ cmds' = cmds
               /\ last' = [sys |-> "spawn_ant", pressed |-> FALSE]
    /\ pc' = Done
    /\ UNCHANGED <<state, hill, data, bonuses, hillEvents, worldEvents, ants,
                   heaps, pellets, anteaters, nextId, timers, now, frame, fault>>

\* NearestHeap with a fault: every heap nearer than 10.0 replaces the target
RECURSIVE LastHeap(_, _, _, _)
LastHeap(hs, pos, near, target) ==
    IF hs = <<>> THEN [near |-> near, target |-> target]
    ELSE IF DistSq(Head(hs).pos, pos) < NearInit
         THEN LastHeap(Tail(hs), pos, DistSq(Head(hs).pos, pos), Head(hs).id)
         ELSE LastHeap(Tail(hs), pos, near, target)

\* The nearest heap of move_ants: near starts at 10.0 and only a strictly
\* smaller squared distance replaces the target.  target is the heap's id, 0
\* for None.
RECURSIVE NearestHeap(_, _, _, _)
NearestHeap(hs, pos, near, target) ==
    IF hs = <<>> THEN [near |-> near, target |-> target]
    ELSE IF DistSq(Head(hs).pos, pos) < near
         THEN NearestHeap(Tail(hs), pos, DistSq(Head(hs).pos, pos), Head(hs).id)
         ELSE NearestHeap(Tail(hs), pos, near, target)

\* Scan with a fault: the targeted flag is not looked at
RECURSIVE ScanIgnoringFlag(_, _, _)
ScanIgnoringFlag(children, ps, picked) ==
    IF children = <<>> THEN [picked |-> picked, claimed |-> 0]
    ELSE IF Head(children) \in Ids(ps)
         THEN [picked |-> picked \cup {Head(children)}, claimed |-> Head(children)]
         ELSE ScanIgnoringFlag(Tail(children), ps, picked \cup {Head(children)})

\* Scan with a fault: the last pellet that can be claimed is taken, not the first
RECURSIVE ScanLast(_, _, _)
ScanLast(children, ps, picked) ==
    IF children = <<>> THEN [picked |-> picked, claimed |-> 0]
    ELSE LET rest == ScanLast(Tail(children), ps, picked \cup {Head(children)})
         IN  IF rest.claimed # 0 \/ Head(children) \in picked THEN rest
             ELSE IF Head(children) \in Ids(ps) /\ ~Entity(ps, Head(children)).targeted
                  THEN [picked |-> picked \cup {Head(children)},
                        claimed |-> Head(children)]
                  ELSE rest

\* The scan of the target heap's Children: a child already in picked is passed
\* over, any other is inserted, and the first that is a pellet with
\* targeted = false is claimed.  claimed is 0 when the loop ends without one.
RECURSIVE Scan(_, _, _)
Scan(children, ps, picked) ==
    IF children = <<>> THEN [picked |-> picked, claimed |-> 0]
    ELSE IF Head(children) \in picked THEN Scan(Tail(children), ps, picked)
         ELSE IF Head(children) \in Ids(ps) /\ ~Entity(ps, Head(children)).targeted
              THEN [picked |-> picked \cup {Head(children)},
                    claimed |-> Head(children)]
              ELSE Scan(Tail(children), ps, picked \cup {Head(children)})

\* ChangeState with a fault: a forager in PickFood that is still away from its
\* target gives the pellet up and wanders again
ChangeStateGivingUp(ant, hs, ps, picked) ==
    CASE ant.state = Wander ->
            LET n == NearestHeap(hs, ant.pos, NearInit, 0)
                r == IF n.near < SensingSq
                     THEN Scan(Entity(hs, n.target).children, ps, picked)
                     ELSE [picked |-> picked, claimed |-> 0]
            IN  [state |-> IF r.claimed # 0
                           THEN PickFood(Entity(ps, r.claimed).pos, r.claimed)
                           ELSE Wander,
                 pellets |-> IF r.claimed # 0 THEN Claim(ps, r.claimed) ELSE ps,
                 picked |-> r.picked, cmds |-> <<>>]
      [] IsPickFood(ant.state) ->
            IF DistSq(ant.pos, ant.state[2]) < PickSq
            THEN [state |-> HasFood, pellets |-> ps, picked |-> picked,
                  cmds |-> <<[op |-> "despawn", id |-> ant.state[3]]>>]
            ELSE [state |-> Wander, pellets |-> Release(ps, {ant.state[3]}),
                  picked |-> picked, cmds |-> <<>>]
      [] ant.state = HasFood ->
            [state |-> IF DistSq(ant.pos, 0) < PickSq THEN Wander ELSE ant.state,
             pellets |-> ps, picked |-> picked, cmds |-> <<>>]

\* The "change state" block of move_ants for one ant
ChangeState(ant, hs, ps, picked) ==
    CASE ant.state = Wander ->
            LET n == NearestHeap(hs, ant.pos, NearInit, 0)
                r == IF n.near < SensingSq
                     THEN Scan(Entity(hs, n.target).children, ps, picked)
                     ELSE [picked |-> picked, claimed |-> 0]
            IN  [state |-> IF r.claimed # 0
                           THEN PickFood(Entity(ps, r.claimed).pos, r.claimed)
                           ELSE Wander,
                 pellets |-> IF r.claimed # 0 THEN Claim(ps, r.claimed) ELSE ps,
                 picked |-> r.picked, cmds |-> <<>>]
      [] IsPickFood(ant.state) ->
            IF DistSq(ant.pos, ant.state[2]) < PickSq
            THEN [state |-> HasFood, pellets |-> ps, picked |-> picked,
                  cmds |-> <<[op |-> "despawn", id |-> ant.state[3]]>>]
            ELSE [state |-> ant.state, pellets |-> ps, picked |-> picked,
                  cmds |-> <<>>]
      [] ant.state = HasFood ->
            IF DistSq(ant.pos, 0) < PickSq
            THEN [state |-> Wander, pellets |-> ps, picked |-> picked,
                  cmds |-> <<>>]
            ELSE [state |-> ant.state, pellets |-> ps, picked |-> picked,
                  cmds |-> <<>>]

\* Where the ant may head: anywhere when it wanders, to its target or to the
\* colony otherwise, or nowhere (the velocity has not turned yet)
Headings(st, pos) ==
    CASE st = Wander -> {-1, 0, 1}
      [] IsPickFood(st) -> {0, Sign(st[2] - pos)}
      [] OTHER -> {0, Sign(0 - pos)}

\* The obstacle probe with a fault: a free cell ahead is entered and
\* wander_strength is left as it is
MovedNoReset(ant, dir) ==
    IF dir # 0 /\ is_obstacle(ant.pos + dir)
    THEN [ant EXCEPT !.wander_strength = @ + BlockedWander]
    ELSE [ant EXCEPT !.pos = @ + dir]

\* The obstacle probe: a free cell ahead is entered and wander_strength is
\* reset, an obstacle leaves the ant where it is with wander_strength + 0.5
Moved(ant, dir) ==
    IF dir # 0 /\ is_obstacle(ant.pos + dir)
    THEN [ant EXCEPT !.wander_strength = @ + BlockedWander]
    ELSE [ant EXCEPT !.pos = @ + dir, !.wander_strength = AntWander]

\* One iteration of the loop of move_ants over st, for the ant of index i
AntOutcomes(st, i, hs) ==
    LET ant == st.ants[i]
        c == ChangeState(ant, hs, st.pellets, st.picked)
        turned == [ant EXCEPT !.state = c.state]
        step == [id |-> ant.id, pos |-> ant.pos, from |-> ant.state, to |-> c.state,
                 before |-> Targeted(st.pellets), after |-> Targeted(c.pellets)]
    IN  { [ants |-> [st.ants EXCEPT ![i] = Moved(turned, dir)],
           pellets |-> c.pellets,
           picked |-> c.picked,
           cmds |-> st.cmds \o c.cmds,
           steps |-> Append(st.steps, step)] :
          dir \in {d \in Headings(c.state, ant.pos) :
                     Moved(turned, d).wander_strength <= MaxWanderStrength} }

RECURSIVE MoveAntsFold(_, _, _, _)
MoveAntsFold(sts, i, n, hs) ==
    IF i > n THEN sts
    ELSE MoveAntsFold(UNION {AntOutcomes(st, i, hs) : st \in sts}, i + 1, n, hs)

MoveAntsResults(as, hs, ps) ==
    MoveAntsFold({[ants |-> as, pellets |-> ps, picked |-> {}, cmds |-> <<>>,
                   steps |-> <<>>]}, 1, Len(as), hs)

move_ants ==
    /\ Runs("move_ants")
    /\ \E r \in MoveAntsResults(ants, heaps, pellets) :
          /\ ants' = r.ants
          /\ pellets' = r.pellets
          /\ cmds' = cmds \o r.cmds
          /\ last' = [sys |-> "move_ants", steps |-> r.steps]
    /\ pc' = Done
    /\ UNCHANGED <<state, hill, data, bonuses, hillEvents, worldEvents, heaps,
                   anteaters, nextId, timers, now, frame, fault>>

\* The ages beyond which a forager dies, in time units
Old(ant, t) == t - ant.birth > ant.gene.life_expectancy * LifeUnit

Reserved(as) == {as[i].state[3] : i \in {k \in DOMAIN as : IsPickFood(as[k].state)}}

DespawnRecursive(es) == [i \in DOMAIN es |-> [op |-> "despawn_recursive", id |-> es[i].id]]

\* Aging with a fault: the reservation of the forager is not released
AgedNoRelease(as, ps, t) ==
    [pellets |-> ps,
     cmds |-> DespawnRecursive(SelectSeq(as, LAMBDA a : Old(a, t))),
     released |-> {}]

\* The aging system: every forager older than its life expectancy is
\* destroyed, and the pellet it had reserved is released before that
Aged(as, ps, t) ==
    LET old == SelectSeq(as, LAMBDA a : Old(a, t))
    IN  [pellets |-> Release(ps, Reserved(old)),
         cmds |-> DespawnRecursive(old),
         released |-> Reserved(old) \cap Ids(ps)]

age_ants ==
    /\ Runs("age_ants")
    /\ LET r == Aged(ants, pellets, now)
       IN  /\ pellets' = r.pellets
           /\ cmds' = cmds \o r.cmds
           /\ last' = [sys |-> "age_ants", released |-> r.released,
                       died |-> Len(r.cmds)]
    /\ pc' = Done
    /\ UNCHANGED <<state, hill, data, bonuses, hillEvents, worldEvents, ants,
                   heaps, anteaters, nextId, timers, now, frame, fault>>

-----------------------------------------------------------------------------
(* ant_eaters.rs *)

Victims(eater, as) == SelectSeq(as, LAMBDA a : DistSq(eater.pos, a.pos) < KillSq)

AllVictims(es, as) == Flatten([i \in DOMAIN es |-> Victims(es[i], as)])

\* anteaters_consume_ants with a fault: the reservation is not released
ConsumedAntsNoRelease(es, as, ps) ==
    [pellets |-> ps,
     anteaters |-> [i \in DOMAIN es |->
                      [es[i] EXCEPT !.ant_killed = @ + Len(Victims(es[i], as))]],
     cmds |-> DespawnRecursive(AllVictims(es, as)),
     victims |-> AllVictims(es, as)]

\* anteaters_consume_ants: every ant within reach of an anteater releases the
\* pellet of its PickFood state, is queued for despawn_recursive and counted
ConsumedAnts(es, as, ps) ==
    [pellets |-> Release(ps, Reserved(AllVictims(es, as))),
     anteaters |-> [i \in DOMAIN es |->
                      [es[i] EXCEPT !.ant_killed = @ + Len(Victims(es[i], as))]],
     cmds |-> DespawnRecursive(AllVictims(es, as)),
     victims |-> AllVictims(es, as)]

anteaters_consume_ants ==
    /\ Runs("anteaters_consume_ants")
    /\ LET r == ConsumedAnts(anteaters, ants, pellets)
       IN  /\ pellets' = r.pellets
           /\ anteaters' = r.anteaters
           /\ cmds' = cmds \o r.cmds
           /\ last' = [sys |-> "anteaters_consume_ants", victims |-> r.victims]
    /\ pc' = Done
    /\ UNCHANGED <<state, hill, data, bonuses, hillEvents, worldEvents, ants,
                   heaps, nextId, timers, now, frame, fault>>

spawn_anteaters ==
    /\ Runs("spawn_anteaters")
    /\ LET evs == SelectSeq(worldEvents, LAMBDA e : e.type = "SpawnAntEater")
       IN  /\ cmds' = cmds \o [i \in DOMAIN evs |->
                                 [op |-> "spawn_anteater", pos |-> evs[i].position[1]]]
           /\ last' = [sys |-> "spawn_anteaters", spawned |-> Len(evs)]
    /\ worldEvents' = SelectSeq(worldEvents, LAMBDA e : e.type # "SpawnAntEater")
    /\ pc' = Done
    /\ UNCHANGED <<state, hill, data, bonuses, hillEvents, ants, heaps, pellets,
                   anteaters, nextId, timers, now, frame, fault>>

\* An anteater heads for the colony, or has not turned yet
AntEaterMoves(eater) ==
    { IF dir # 0 /\ is_obstacle(eater.pos + dir)
      THEN [eater EXCEPT !.wander_strength = @ + BlockedWander]
      ELSE [eater EXCEPT !.pos = @ + dir, !.wander_strength = AntEaterMoved] :
      dir \in {0, Sign(0 - eater.pos)} }

RECURSIVE MoveAntEatersFold(_, _, _)
MoveAntEatersFold(ess, i, n) ==
    IF i > n THEN ess
    ELSE MoveAntEatersFold(
             UNION {{[es EXCEPT ![i] = m] : m \in AntEaterMoves(es[i])} : es \in ess},
             i + 1, n)

move_anteaters ==
    /\ Runs("move_anteaters")
    /\ anteaters' \in MoveAntEatersFold({anteaters}, 1, Len(anteaters))
    /\ last' = [sys |-> "move_anteaters"]
    /\ pc' = Done
    /\ UNCHANGED <<state, hill, data, bonuses, hillEvents, worldEvents, ants,
                   heaps, pellets, cmds, nextId, timers, now, frame, fault>>

Eaten(eater, ps) == SelectSeq(ps, LAMBDA f : DistSq(eater.pos, f.pos) < KillSq)

anteaters_consume_food ==
    /\ Runs("anteaters_consume_food")
    /\ cmds' = cmds \o Flatten([i \in DOMAIN anteaters |->
                   [k \in DOMAIN Eaten(anteaters[i], pellets) |->
                       [op |-> "eat", id |-> Eaten(anteaters[i], pellets)[k].id,
                        anteater |-> anteaters[i].id]]])
    /\ anteaters' = [i \in DOMAIN anteaters |->
                       [anteaters[i] EXCEPT
                           !.food_picked = @ + Len(Eaten(anteaters[i], pellets))]]
    /\ last' = [sys |-> "anteaters_consume_food"]
    /\ pc' = Done
    /\ UNCHANGED <<state, hill, data, bonuses, hillEvents, worldEvents, ants,
                   heaps, pellets, nextId, timers, now, frame, fault>>

\* DeathEvents with a fault: the two divisors are exchanged
DeathEventsSwapped(eater) ==
    <<ReplenishFood(eater.ant_killed \div PelletsPerFood, KillsRatio, <<>>),
      ReplenishFood(eater.food_picked \div KillsPerFood, PelletsRatio, <<>>),
      ImproveLifeExpectancy(-PredatorLifePenalty),
      ImproveMaxSpeed(-PredatorSpeedPenalty)>>

DeathEvents(eater) ==
    <<ReplenishFood(eater.ant_killed \div KillsPerFood, KillsRatio, <<>>),
      ReplenishFood(eater.food_picked \div PelletsPerFood, PelletsRatio, <<>>),
      ImproveLifeExpectancy(-PredatorLifePenalty),
      ImproveMaxSpeed(-PredatorSpeedPenalty)>>

\* Dying with a fault: the radius is the one the anteater kills in
DyingInReach(es) == SelectSeq(es, LAMBDA e : DistSq(e.pos, 0) < KillSq)

\* The anteaters within the death radius of the colony
Dying(es) == SelectSeq(es, LAMBDA e : DistSq(e.pos, 0) < DeathSq)

anteaters_die ==
    /\ Runs("anteaters_die")
    /\ LET dead == Dying(anteaters)
       IN  /\ cmds' = cmds \o DespawnRecursive(dead)
           /\ hillEvents' = hillEvents \o
                               Flatten([i \in DOMAIN dead |-> DeathEvents(dead[i])])
           /\ last' = [sys |-> "anteaters_die", dead |-> dead]
    /\ pc' = Done
    /\ UNCHANGED <<state, hill, data, bonuses, worldEvents, ants, heaps, pellets,
                   anteaters, nextId, timers, now, frame, fault>>

-----------------------------------------------------------------------------
(* food.rs *)

\* Heaps of 80 to 99 pellets are scaled down to 1..MaxHeapPellets pellets.
\* A nearby heap lands on the colony's cell and any other two cells away; the
\* pellets of a heap lie on the next cell and on the heap's cell, in turn.
HeapSizes == 1..MaxHeapPellets
NearCells == {0}
FarCells == {2}

Offsets(n) == [i \in 1..n |-> i % 2]

\* The first n offsets that do not put a pellet of a heap at p on an obstacle
FreeOffsets(p, n) ==
    [i \in 1..n |-> IF is_obstacle(p + Offsets(n)[i]) THEN 0 ELSE Offsets(n)[i]]

\* The cells drawn for a heap: a far heap may be drawn on the terrain's
\* obstacles as well
HeapCells(nearby) == IF nearby THEN NearCells ELSE FarCells \cup Walls

\* HeapPlans with a fault: the cell drawn for the heap is taken as it is
HeapPlansAnywhere(nearby) ==
    {[op |-> "spawn_heap", pos |-> p, offsets |-> FreeOffsets(p, n)] :
        p \in HeapCells(nearby), n \in HeapSizes}

HeapPlans(nearby) ==
    {[op |-> "spawn_heap", pos |-> p, offsets |-> FreeOffsets(p, n)] :
        p \in {q \in HeapCells(nearby) : ~is_obstacle(q)}, n \in HeapSizes}

\* The heaps spawn_food queues for the events: a heap lands on the line, as
\* long as the line has room for one, or off the line, where it is left out
RECURSIVE SpawnFoodFold(_, _, _)
SpawnFoodFold(css, evs, room) ==
    IF evs = <<>> THEN css
    ELSE SpawnFoodFold(
             UNION {{cs} \cup (IF Len(cs) < room
                               THEN {Append(cs, plan) : plan \in HeapPlans(Head(evs).nearby)}
                               ELSE {}) : cs \in css},
             Tail(evs), room)

spawn_food ==
    /\ Runs("spawn_food")
    /\ \E cs \in SpawnFoodFold({<<>>},
                               SelectSeq(worldEvents, LAMBDA e : e.type = "SpawnFood"),
                               MaxHeaps - Len(heaps) - Pending("spawn_heap")) :
          /\ cmds' = cmds \o cs
          /\ last' = [sys |-> "spawn_food", spawned |-> Len(cs)]
    /\ worldEvents' = SelectSeq(worldEvents, LAMBDA e : e.type # "SpawnFood")
    /\ pc' = Done
    /\ UNCHANGED <<state, hill, data, bonuses, hillEvents, ants, heaps, pellets,
                   anteaters, nextId, timers, now, frame, fault>>

\* The FoodGoneBadTimer of a heap finishes at a frame the model leaves open
food_gone_bad ==
    /\ Runs("food_gone_bad")
    /\ \E fired \in SUBSET {h.id : h \in {heaps[i] : i \in {k \in DOMAIN heaps :
                                                          ~heaps[k].gone_bad}}} :
          /\ heaps' = [i \in DOMAIN heaps |->
                         IF heaps[i].id \in fired
                         THEN [heaps[i] EXCEPT !.gone_bad = TRUE] ELSE heaps[i]]
          /\ cmds' = cmds \o
                [i \in DOMAIN SelectSeq(heaps, LAMBDA h : h.id \in fired) |->
                    LET h == SelectSeq(heaps, LAMBDA e : e.id \in fired)[i]
                    IN  [op |-> "warn", id |-> h.id,
                         delay |-> SummonDelay(timers.summon_anteater,
                                               h.start_count)]]
          /\ last' = [sys |-> "food_gone_bad", fired |-> fired]
    /\ pc' = Done
    /\ UNCHANGED <<state, hill, data, bonuses, hillEvents, worldEvents, ants,
                   pellets, anteaters, nextId, timers, now, frame, fault>>

Expected ==
    Len(anteaters) + Pending("spawn_anteater")
        + Len(SelectSeq(worldEvents, LAMBDA e : e.type = "SpawnAntEater"))

\* The runs that keep the clock of the AntEaterTimers
KeepsClock == "clocked" \in DOMAIN pc

Running(hs) == {hs[i].id : i \in {k \in DOMAIN hs : hs[k].anteater_timer = "running"}}

\* timer.0.tick(time.delta()).just_finished()
Due(h, dt) == h.anteater_timer = "running" /\ h.summon_elapsed + dt >= h.summon_delay

\* The heaps whose AntEaterTimer finishes in this frame: those whose delay
\* has elapsed, in the runs that keep the clock; in the other runs the frame
\* at which a timer finishes is left open
Summons(hs, dt) ==
    IF KeepsClock
    THEN {{hs[i].id : i \in {k \in DOMAIN hs : Due(hs[k], dt)}}}
    ELSE {fired \in SUBSET Running(hs) : Cardinality(fired) + Expected <= MaxAnteaters}

enter_the_anteater ==
    /\ Runs("enter_the_anteater")
    /\ \E fired \in Summons(heaps, timers.delta) :
          /\ heaps' = [i \in DOMAIN heaps |->
                         IF heaps[i].id \in fired
                         THEN [heaps[i] EXCEPT !.anteater_timer = "finished",
                                               !.summon_elapsed =
                                                   IF KeepsClock THEN heaps[i].summon_delay
                                                   ELSE @]
                         ELSE IF KeepsClock /\ heaps[i].anteater_timer = "running"
                              THEN [heaps[i] EXCEPT !.summon_elapsed = @ + timers.delta]
                              ELSE heaps[i]]
          /\ worldEvents' = worldEvents \o
                [i \in DOMAIN SelectSeq(heaps, LAMBDA h : h.id \in fired) |->
                    SpawnAntEater(<<SelectSeq(heaps, LAMBDA h : h.id \in fired)[i].pos, 0>>)]
          /\ last' = [sys |-> "enter_the_anteater", fired |-> fired]
    /\ pc' = Done
    /\ UNCHANGED <<state, hill, data, bonuses, hillEvents, ants, pellets,
                   anteaters, cmds, nextId, timers, now, frame, fault>>

\* The record a run keeps of its latest periodic spawn, when it keeps one
\* (pc.popped): the time of the spawn, the time the FoodTimer carried over
\* it, and the interval since the periodic spawn before (0: there was none)
PoppedAt(t, carried, popped) ==
    [at |-> t, carried |-> carried,
     gap |-> IF popped = <<>> THEN 0 ELSE t - popped[1].at]

pop_food ==
    /\ Runs("pop_food")
    /\ LET t == TimerTick(timers.food, FoodPeriod, timers.delta)
       IN  /\ timers' = [timers EXCEPT !.food = t[1]]
           /\ worldEvents' = IF t[2]
                             THEN worldEvents \o
                                    [i \in 1..FoodEventsPerPop |-> SpawnFood(FALSE)]
                             ELSE worldEvents
           /\ last' = [sys |-> "pop_food", fired |-> t[2]]
           /\ pc' = IF "popped" \in DOMAIN pc /\ t[2]
                    THEN [Done EXCEPT !.popped = <<PoppedAt(now, t[1], pc.popped)>>]
                    ELSE Done
    /\ UNCHANGED <<state, hill, data, bonuses, hillEvents, ants, heaps, pellets,
                   anteaters, cmds, nextId, now, frame, fault>>

Empty(h) ==
    \/ Len(h.children) = 0
    \/ Len(h.children) = 1 /\ h.children[1] = h.warning

remove_empty_heaps ==
    /\ Runs("remove_empty_heaps")
    /\ cmds' = cmds \o DespawnRecursive(SelectSeq(heaps, Empty))
    /\ last' = [sys |-> "remove_empty_heaps",
                removed |-> Len(SelectSeq(heaps, Empty))]
    /\ pc' = Done
    /\ UNCHANGED <<state, hill, data, bonuses, hillEvents, worldEvents, ants,
                   heaps, pellets, anteaters, nextId, timers, now, frame, fault>>

-----------------------------------------------------------------------------
(* The world loop: a Playing frame of the systems of ants.rs, food.rs and  *)
(* ant_eaters.rs with hill_events, stage by stage (PreUpdate, Update,      *)
(* PostUpdate), from the state restart_game leaves                         *)

WorldSchedule ==
    <<"anteaters_consume_ants", "apply_buffers",
      "spawn_ant", "move_ants", "age_ants", "hill_events",
      "spawn_food", "food_gone_bad", "enter_the_anteater", "pop_food",
      "spawn_anteaters", "move_anteaters", "anteaters_consume_food",
      "apply_buffers",
      "remove_empty_heaps", "anteaters_die", "apply_buffers">>

WorldInit ==
    /\ state = "Playing"
    /\ hill = AntHillDefault
    /\ data = GraphDataFromAnthill(AntHillDefault, SplashTime)
    /\ bonuses = BonusesDefault
    /\ hillEvents = <<>>
    /\ worldEvents = <<SpawnFood(TRUE)>>
    /\ ants = <<>>
    /\ heaps = <<>>
    /\ pellets = <<>>
    /\ anteaters = <<>>
    /\ cmds = <<>>
    /\ nextId = 1
    /\ \E dt \in Deltas(TimersInit) : timers = Clocked(TimersInit, dt)
    /\ now = SplashTime
    /\ frame = 0
    /\ pc = [todo |-> WorldSchedule, schedule |-> WorldSchedule,
             limit |-> MaxWorldFrames]
    /\ fault = "none"
    /\ last = [sys |-> "restart_game"]

WorldNext ==
    \/ anteaters_consume_ants
    \/ spawn_ant
    \/ move_ants
    \/ age_ants
    \/ hill_events
    \/ spawn_food
    \/ food_gone_bad
    \/ enter_the_anteater
    \/ pop_food
    \/ spawn_anteaters
    \/ move_anteaters
    \/ anteaters_consume_food
    \/ remove_empty_heaps
    \/ anteaters_die
    \/ apply_buffers
    \/ end_frame

WorldSpec == WorldInit /\ [][WorldNext]_vars

-----------------------------------------------------------------------------
(* The ledger alone: hill_events, use_food and evolve_hills applied to the *)
(* ledgers a session can hold and to one pending event                     *)

HillSchedule == <<"hill_events", "use_food", "evolve_hills", "apply_buffers">>

\* The genome after the penalties of forty dead predators
WornGene ==
    Gene(MinLifeExpectancy, DefaultMaxSpeed - 40 * PredatorSpeedPenalty,
         DefaultWanderStrength, DefaultAntennas)

LowNoise ==
    Gene(-MutationLifeExpectancy, -MutationMaxSpeed,
         -MutationWanderStrength, -MutationAntennas)

LedgerHills ==
    {[food |-> f, queen_food |-> q, gene |-> g, spawn_per_wave |-> w,
      mutation_improvement |-> m, gatherer_genes |-> <<>>] :
        f \in {0, SpawnThreshold - 1, SpawnThreshold, DefaultFood},
        q \in {0, DefaultQueenFood},
        g \in {AntHillDefault.gene, WornGene},
        w \in {DefaultSpawnPerWave, DefaultSpawnPerWave + BonusesDefault.improve_wave},
        m \in {0, BonusesDefault.improve_mutation}}

\* The pending event: none, a wave of no or of one creature, an upgrade, a
\* penalty, a purchase the queen's stock covers, or the delivery of a forager
\* that the hill spawned with the lowest noise
LedgerEvents(h) ==
    {<<>>, <<SpawnAnts(0)>>, <<SpawnAnts(1)>>,
     <<ImproveMaxSpeed(BonusesDefault.improve_speed)>>,
     <<ImproveMaxSpeed(-PredatorSpeedPenalty)>>,
     <<ImproveLifeExpectancy(BonusesDefault.improve_life)>>,
     <<ImproveLifeExpectancy(-PredatorLifePenalty)>>,
     <<ImproveAntennas(BonusesDefault.improve_antennas)>>,
     <<ImproveWave(BonusesDefault.improve_wave)>>,
     <<ImproveMutation(BonusesDefault.improve_mutation)>>,
     <<ReplenishFood(1, PelletsRatio, <<MutatedGene(h.gene, LowNoise)>>)>>}
    \cup (IF h.queen_food >= BonusesDefault.improve_speed_cost
          THEN {<<RemoveQueenFood(BonusesDefault.improve_speed_cost)>>} ELSE {})

LedgerInit ==
    /\ state = "Playing"
    /\ hill \in LedgerHills
    /\ data = GraphDataFromAnthill(hill, SplashTime)
    /\ bonuses = BonusesDefault
    /\ hillEvents \in LedgerEvents(hill)
    /\ worldEvents = <<>>
    /\ ants = <<>>
    /\ heaps = <<>>
    /\ pellets = <<>>
    /\ anteaters = <<>>
    /\ cmds = <<>>
    /\ nextId = 1
    /\ \E dt \in Deltas(TimersInit) : timers = Clocked(TimersInit, dt)
    /\ now = SplashTime
    /\ frame = 0
    /\ pc = [todo |-> HillSchedule, schedule |-> HillSchedule,
             limit |-> MaxLedgerFrames]
    /\ fault = "none"
    /\ last = [sys |-> "restart_game"]

LedgerNext ==
    \/ hill_events
    \/ use_food
    \/ evolve_hills
    \/ apply_buffers
    \/ end_frame

LedgerSpec == LedgerInit /\ [][LedgerNext]_vars

-----------------------------------------------------------------------------
(* Pellet reservations (WorldSpec) *)

\* A tick boundary: every stage of the frame has run and its commands have
\* been applied
TickBoundary == pc.todo = <<>> /\ cmds = <<>>

Referring(id) ==
    {k \in DOMAIN ants : IsPickFood(ants[k].state) /\ ants[k].state[3] = id}

\* C2: at every tick boundary, a pellet whose targeted flag is true is the
\* pellet of exactly one live forager in PickFood.
C2_TargetedHasOneForager ==
    TickBoundary =>
        \A i \in DOMAIN pellets :
            pellets[i].targeted => Cardinality(Referring(pellets[i].id)) = 1

C2_Witness ==
    /\ TickBoundary
    /\ \E i \in DOMAIN pellets :
          pellets[i].targeted /\ Cardinality(Referring(pellets[i].id)) = 1

\* The ants that no queued command despawns
Live == {k \in DOMAIN ants :
           \A c \in DOMAIN cmds :
               cmds[c].op = "despawn_recursive" => cmds[c].id # ants[k].id}

\* C3: no two live foragers in PickFood reference the same pellet, whether
\* they claimed in the same tick or in different ticks.
C3_NoSharedPellet ==
    \A i, k \in Live :
        (i # k /\ IsPickFood(ants[i].state) /\ IsPickFood(ants[k].state))
            => ants[i].state[3] # ants[k].state[3]

\* Two foragers claimed in the same run of move_ants
C3_Witness ==
    /\ last.sys = "move_ants"
    /\ \E i, k \in DOMAIN last.steps :
          /\ i # k
          /\ last.steps[i].from = Wander /\ IsPickFood(last.steps[i].to)
          /\ last.steps[k].from = Wander /\ IsPickFood(last.steps[k].to)
          /\ last.steps[i].to[3] # last.steps[k].to[3]

Despawned(cs, id) ==
    \E c \in DOMAIN cs : cs[c] = [op |-> "despawn_recursive", id |-> id]

Flag(ps, id) == Entity(ps, id).targeted

\* C4: when aging destroys a forager in PickFood, the forager is removed and
\* the targeted flag of its pellet is false after that step.
C4_AgingReleases ==
    [][age_ants =>
         \A k \in DOMAIN ants :
             Old(ants[k], now) =>
                 /\ Despawned(cmds', ants[k].id)
                 /\ (IsPickFood(ants[k].state) /\ ants[k].state[3] \in Ids(pellets))
                        => ~Flag(pellets', ants[k].state[3])]_vars

C4_Witness ==
    /\ last.sys = "age_ants"
    /\ \E id \in last.released : id \in Ids(pellets) /\ ~Flag(pellets, id)

InReach(a) == \E e \in DOMAIN anteaters : DistSq(anteaters[e].pos, a.pos) < KillSq

\* C5: when a predator consumes a forager, the forager is despawned and the
\* predator's ants_killed grows by one for it; the targeted flag of the pellet
\* of a forager consumed in PickFood is false after the same step, and no
\* other flag changes.
C5_PredatorReleases ==
    [][anteaters_consume_ants =>
         /\ \A k \in DOMAIN ants :
               InReach(ants[k]) =>
                   /\ Despawned(cmds', ants[k].id)
                   /\ (IsPickFood(ants[k].state) /\ ants[k].state[3] \in Ids(pellets))
                          => ~Flag(pellets', ants[k].state[3])
         /\ \A e \in DOMAIN anteaters :
               anteaters'[e].ant_killed = anteaters[e].ant_killed
                   + Cardinality({k \in DOMAIN ants :
                                    DistSq(anteaters[e].pos, ants[k].pos) < KillSq})
         /\ \A i \in DOMAIN pellets :
               (\A k \in DOMAIN ants :
                    (InReach(ants[k]) /\ IsPickFood(ants[k].state))
                        => ants[k].state[3] # pellets[i].id)
                   => pellets'[i] = pellets[i]]_vars

C5_Witness ==
    /\ last.sys = "anteaters_consume_ants"
    /\ \E v \in DOMAIN last.victims :
          /\ IsPickFood(last.victims[v].state)
          /\ last.victims[v].state[3] \in Ids(pellets)
          /\ ~Flag(pellets, last.victims[v].state[3])
    /\ \E e \in DOMAIN anteaters : anteaters[e].ant_killed > 0

\* The children of a heap that are pellets, in storage order
LivePellets(h, ps) == SelectSeq(h.children, LAMBDA c : c \in Ids(ps))

\* A heap with a pellet, none of them targeted
FreeHeap(h, ps, targeted) ==
    /\ LivePellets(h, ps) # <<>>
    /\ \A k \in DOMAIN LivePellets(h, ps) : LivePellets(h, ps)[k] \notin targeted

ClaimsFirst(step, h, ps) ==
    LET first == Head(LivePellets(h, ps))
    IN  /\ step.to = PickFood(Entity(ps, first).pos, first)
        /\ step.after = step.before \cup {first}

InRange(h, pos) == DistSq(h.pos, pos) < SensingSq

IsNearest(h, hs, pos) ==
    LET n == NearestHeap(hs, pos, NearInit, 0)
    IN  n.near < SensingSq /\ n.target = h.id

\* C6, as amended: a forager in Wander whose nearest heap is within sensing
\* range, has a pellet and has no targeted pellet, goes to PickFood on the
\* first pellet of that heap in storage order, with the pellet's position as
\* target, and exactly that pellet's flag becomes true.
C6_NearestFreeHeapClaimed ==
    [][move_ants =>
         \A s \in DOMAIN last'.steps :
             \A h \in DOMAIN heaps :
                 (/\ last'.steps[s].from = Wander
                  /\ IsNearest(heaps[h], heaps, last'.steps[s].pos)
                  /\ FreeHeap(heaps[h], pellets, last'.steps[s].before))
                     => ClaimsFirst(last'.steps[s], heaps[h], pellets)]_vars

\* C6, as stated: a forager in Wander within sensing range of a heap that has
\* no targeted pellet claims the first pellet of such a heap.
C6_AnyFreeHeapClaimed ==
    [][move_ants =>
         \A s \in DOMAIN last'.steps :
             (/\ last'.steps[s].from = Wander
              /\ \E h \in DOMAIN heaps :
                    /\ InRange(heaps[h], last'.steps[s].pos)
                    /\ FreeHeap(heaps[h], pellets, last'.steps[s].before))
                 => \E h \in DOMAIN heaps :
                       /\ InRange(heaps[h], last'.steps[s].pos)
                       /\ FreeHeap(heaps[h], pellets, last'.steps[s].before)
                       /\ ClaimsFirst(last'.steps[s], heaps[h], pellets)]_vars

\* A forager has claimed the first of the two pellets of a free heap
C6_Witness ==
    /\ last.sys = "move_ants"
    /\ \E s \in DOMAIN last.steps :
          /\ last.steps[s].from = Wander
          /\ IsPickFood(last.steps[s].to)
          /\ last.steps[s].before = {}
          /\ \E h \in DOMAIN heaps :
                /\ Len(LivePellets(heaps[h], pellets)) > 1
                /\ Head(LivePellets(heaps[h], pellets)) = last.steps[s].to[3]
                /\ last.steps[s].after = {last.steps[s].to[3]}

AtColony(a) == a.state = HasFood /\ DistSq(a.pos, 0) < PickSq

\* C7: a forager in HasFood within the drop radius of the colony goes to
\* Wander and sends one delivery event of count 1 that carries its genome.
C7_DeliveryReported ==
    [][move_ants =>
         \A k \in DOMAIN ants :
             AtColony(ants[k]) =>
                 /\ ants'[k].state = Wander
                 /\ \E e \in DOMAIN hillEvents' :
                       /\ e > Len(hillEvents)
                       /\ hillEvents'[e].type = "ReplenishFood"
                       /\ hillEvents'[e].count = 1
                       /\ hillEvents'[e].gene = <<ants[k].gene>>]_vars

-----------------------------------------------------------------------------
(* The ledger *)

\* C1: worker_food >= 0 and queen_food >= 0 in every reachable state: no
\* RemoveQueenFood(amount) is applied with amount > queen_food and spawn
\* financing deducts no more than worker_food.
C1_LedgersNotOverdrawn ==
    fault # "underflow" /\ hill.food >= 0 /\ hill.queen_food >= 0

\* C8: use_food with worker_food >= 10 deducts exactly 10 and sends exactly
\* one SpawnAnts whose count is the truncated spawn_per_wave (from 50 and a
\* wave of 10.0: 40 and count 10); with worker_food < 10 it changes nothing
\* and sends nothing.
C8_SpawnFinancing ==
    [][use_food =>
         /\ hill.food >= 10 =>
               /\ hill' = [hill EXCEPT !.food = hill.food - 10]
               /\ hillEvents' =
                      Append(hillEvents, SpawnAnts(hill.spawn_per_wave \div WaveUnit))
         /\ (hill.food = 50 /\ hill.spawn_per_wave = 10 * WaveUnit) =>
               /\ hill'.food = 40
               /\ hillEvents'[Len(hillEvents')] = SpawnAnts(10)
         /\ hill.food < 10 => (hill' = hill /\ hillEvents' = hillEvents)]_vars

\* use_food has financed a wave of 11.75, which spawns 11
C8_Witness ==
    /\ last.sys = "use_food"
    /\ last.hill.food >= 10
    /\ last.hill.spawn_per_wave = DefaultSpawnPerWave + BonusesDefault.improve_wave
    /\ hill.food = last.hill.food - 10
    /\ hillEvents = Append(last.events, SpawnAnts(11))

\* C9: a SpawnAnts event of count 0 spawns nothing and leaves the ledger,
\* the population and the cumulative spawn count as they were.
C9_EmptyWave ==
    [][(hill_events /\ hillEvents = <<SpawnAnts(0)>>) =>
         /\ cmds' = cmds
         /\ hill' = hill
         /\ ants' = ants
         /\ data'.total_ants = data.total_ants]_vars

C9_Witness ==
    /\ last.sys = "hill_events"
    /\ last.events = <<SpawnAnts(0)>>
    /\ cmds = <<>>
    /\ hill = last.hill

-----------------------------------------------------------------------------
(* Evolution and the ledger's events (LedgerSpec) *)

\* C11, as amended: with an empty gatherer_genes queue and a
\* mutation_improvement of 0, the genome after two evolution ticks in a row
\* equals the genome after one and equals the genome before.
C11_EvolveIdempotentNoBias ==
    (hill.gatherer_genes = <<>> /\ hill.mutation_improvement = 0) =>
        /\ Evolved(hill).gene = hill.gene
        /\ Evolved(Evolved(hill)).gene = Evolved(hill).gene

\* C11, as stated: with an empty gatherer_genes queue and the same
\* mutation_improvement, two evolution ticks in a row leave the genome as it
\* was.
C11_EvolveIdempotent ==
    hill.gatherer_genes = <<>> =>
        /\ Evolved(hill).gene = hill.gene
        /\ Evolved(Evolved(hill)).gene = Evolved(hill).gene

\* evolve_hills has fired on an empty queue with no bias
C11_Witness ==
    /\ last.sys = "evolve_hills"
    /\ last.fired
    /\ last.hill.gatherer_genes = <<>>
    /\ last.hill.mutation_improvement = 0
    /\ hill.gene = last.hill.gene

-----------------------------------------------------------------------------
(* The death of a predator: one anteater that has eaten and killed, on its *)
(* way to the colony (ThreatSpec)                                          *)

ThreatSchedule ==
    <<"hill_events", "move_anteaters", "apply_buffers", "anteaters_die",
      "apply_buffers">>

KillCounts == {0, KillsPerFood - 1, KillsPerFood, 2 * KillsPerFood + 5}
PelletCounts == {0, PelletsPerFood - 1, PelletsPerFood, 2 * PelletsPerFood + 5}

\* The genome at its floors
FloorGene ==
    Gene(MinLifeExpectancy, MinMaxSpeed, DefaultWanderStrength, DefaultAntennas)

ThreatHills == {AntHillDefault, [AntHillDefault EXCEPT !.gene = FloorGene]}

\* The anteater of id 1 with the pellets it carries as children
FedAntEater(pos, killed, picked) ==
    [NewAntEater(1, pos) EXCEPT !.ant_killed = killed, !.food_picked = picked,
                                !.children = [i \in 1..picked |-> 1 + i]]

ThreatInit ==
    /\ state = "Playing"
    /\ hill \in ThreatHills
    /\ data = GraphDataFromAnthill(hill, SplashTime)
    /\ bonuses = BonusesDefault
    /\ hillEvents = <<>>
    /\ worldEvents = <<>>
    /\ ants = <<>>
    /\ heaps = <<>>
    /\ pellets = <<>>
    /\ \E pos \in 0..2, killed \in KillCounts, picked \in PelletCounts :
          /\ anteaters = <<FedAntEater(pos, killed, picked)>>
          /\ nextId = picked + 2
    /\ cmds = <<>>
    /\ \E dt \in Deltas(TimersInit) : timers = Clocked(TimersInit, dt)
    /\ now = SplashTime
    /\ frame = 0
    /\ pc = [todo |-> ThreatSchedule, schedule |-> ThreatSchedule,
             limit |-> MaxThreatFrames]
    /\ fault = "none"
    /\ last = [sys |-> "restart_game"]

ThreatNext ==
    \/ hill_events
    \/ move_anteaters
    \/ anteaters_die
    \/ apply_buffers
    \/ end_frame

ThreatSpec == ThreatInit /\ [][ThreatNext]_vars

Clamped(x, floor) == IF x >= floor THEN x ELSE floor

\* C12: a predator within the death radius sends ReplenishFood of
\* ants_killed / 10 and of food_picked / 20 (integer division; 1 and 1 for 10
\* kills and 20 pellets), ImproveLifeExpectancy(-0.5) and
\* ImproveMaxSpeed(-0.001); hill_events then adds exactly the returned units to
\* food + queen_food and lowers life_expectancy by 0.5 and max_speed by 0.001,
\* down to the floors at most.
C12_PredatorDeath ==
    [][/\ anteaters_die =>
             \A e \in DOMAIN anteaters :
                 (Len(anteaters) = 1 /\ DistSq(anteaters[e].pos, 0) < DeathSq) =>
                     /\ Len(hillEvents') = Len(hillEvents) + 4
                     /\ hillEvents'[Len(hillEvents) + 1].type = "ReplenishFood"
                     /\ hillEvents'[Len(hillEvents) + 1].count
                            = anteaters[e].ant_killed \div 10
                     /\ hillEvents'[Len(hillEvents) + 2].type = "ReplenishFood"
                     /\ hillEvents'[Len(hillEvents) + 2].count
                            = anteaters[e].food_picked \div 20
                     /\ hillEvents'[Len(hillEvents) + 3]
                            = ImproveLifeExpectancy(-PredatorLifePenalty)
                     /\ hillEvents'[Len(hillEvents) + 4]
                            = ImproveMaxSpeed(-PredatorSpeedPenalty)
                     /\ (anteaters[e].ant_killed = 10 /\ anteaters[e].food_picked = 20)
                            => /\ hillEvents'[Len(hillEvents) + 1].count = 1
                               /\ hillEvents'[Len(hillEvents) + 2].count = 1
       /\ (hill_events /\ Len(hillEvents) = 4
                       /\ hillEvents[3] = ImproveLifeExpectancy(-PredatorLifePenalty)) =>
             /\ hill'.food + hill'.queen_food
                    = hill.food + hill.queen_food
                          + hillEvents[1].count + hillEvents[2].count
             /\ hill'.gene.life_expectancy
                    = Clamped(hill.gene.life_expectancy - PredatorLifePenalty,
                              MinLifeExpectancy)
             /\ hill'.gene.max_speed
                    = Clamped(hill.gene.max_speed - PredatorSpeedPenalty, MinMaxSpeed)
             /\ hill'.gene.life_expectancy >= MinLifeExpectancy
             /\ hill'.gene.max_speed >= MinMaxSpeed]_vars

\* hill_events has applied the events of a predator that had killed 10 ants
\* and eaten 20 pellets
C12_Witness ==
    /\ last.sys = "hill_events"
    /\ Len(last.events) = 4
    /\ last.events[1] = ReplenishFood(1, KillsRatio, <<>>)
    /\ last.events[2] = ReplenishFood(1, PelletsRatio, <<>>)
    /\ hill.food + hill.queen_food = last.hill.food + last.hill.queen_food + 2
    /\ hill.gene.life_expectancy = last.hill.gene.life_expectancy - PredatorLifePenalty
    /\ hill.gene.max_speed = last.hill.gene.max_speed - PredatorSpeedPenalty
    /\ anteaters = <<>>

-----------------------------------------------------------------------------
(* The queue of the gatherers' genomes: the ledger systems applied to a    *)
(* queue that is empty, short, one short of full or full (QueueSpec)       *)

QueueLengths == {0, 1, GathererGenesCap - 1, GathererGenesCap}

\* The genome of the i-th gatherer: the default genome with a noise on
\* life_expectancy that tells the entries apart
QueueGene(i) ==
    Gene(DefaultLifeExpectancy - MutationLifeExpectancy + i, DefaultMaxSpeed,
         DefaultWanderStrength, DefaultAntennas)

\* Nothing pending, a delivery with a genome, a return of food without one,
\* or two deliveries in the same frame
QueueEvents ==
    {<<>>,
     <<ReplenishFood(1, PelletsRatio, <<QueueGene(GathererGenesCap + 1)>>)>>,
     <<ReplenishFood(1, PelletsRatio, <<>>)>>,
     <<ReplenishFood(1, PelletsRatio, <<QueueGene(GathererGenesCap + 1)>>),
       ReplenishFood(1, PelletsRatio, <<QueueGene(GathererGenesCap + 2)>>)>>}

QueueInit ==
    /\ state = "Playing"
    /\ \E n \in QueueLengths :
          hill = [AntHillDefault EXCEPT
                     !.gatherer_genes = [i \in 1..n |-> QueueGene(i)]]
    /\ data = GraphDataFromAnthill(hill, SplashTime)
    /\ bonuses = BonusesDefault
    /\ hillEvents \in QueueEvents
    /\ worldEvents = <<>>
    /\ ants = <<>>
    /\ heaps = <<>>
    /\ pellets = <<>>
    /\ anteaters = <<>>
    /\ cmds = <<>>
    /\ nextId = 1
    /\ \E dt \in Deltas(TimersInit) : timers = Clocked(TimersInit, dt)
    /\ now = SplashTime
    /\ frame = 0
    /\ pc = [todo |-> HillSchedule, schedule |-> HillSchedule,
             limit |-> MaxLedgerFrames]
    /\ fault = "none"
    /\ last = [sys |-> "restart_game"]

QueueSpec == QueueInit /\ [][LedgerNext]_vars

\* The genomes that the events deliver, in order
Delivered(evs) ==
    Flatten([i \in DOMAIN evs |->
                IF evs[i].type = "ReplenishFood" THEN evs[i].gene ELSE <<>>])

\* The last n entries of q, or all of q when it is shorter
MostRecent(q, n) == SubSeq(q, Max(1, Len(q) - n + 1), Len(q))

\* C13: gatherer_genes never holds more than 100 entries; a delivery with a
\* genome appends it at the back and evicts the oldest entry beyond 100, so
\* the queue is the most recent (up to 100) delivered genomes in arrival
\* order; a delivery without a genome leaves the queue as it was.
C13_BoundedQueue ==
    [][/\ Len(hill'.gatherer_genes) <= 100
       /\ hill_events =>
             /\ hill'.gatherer_genes
                    = MostRecent(hill.gatherer_genes \o Delivered(hillEvents), 100)
             /\ Delivered(hillEvents) = <<>>
                    => hill'.gatherer_genes = hill.gatherer_genes]_vars

\* A delivery to a full queue has evicted the oldest entry
C13_Witness ==
    /\ last.sys = "hill_events"
    /\ Len(last.hill.gatherer_genes) = 100
    /\ Len(last.events) = 1
    /\ Delivered(last.events) # <<>>
    /\ Len(hill.gatherer_genes) = 100
    /\ hill.gatherer_genes[100] = Delivered(last.events)[1]
    /\ hill.gatherer_genes[1] = last.hill.gatherer_genes[2]

-----------------------------------------------------------------------------
(* The session: Splash, Playing, Lost and Won (game_state.rs).  A Playing  *)
(* frame runs the systems of the colony ledger, faster_decay and the panel; *)
(* the frame that sets Lost or Won ends with on_exit(Playing), and the      *)
(* Restart! button of the end screen leads back through on_enter(Playing).  *)

MaxSessionFrames == 2

SessionSchedule ==
    <<"hill_events", "use_food", "evolve_hills", "faster_decay", "overall_ui",
      "update_graph_data", "apply_buffers">>

\* Decayed with a fault: the delays are lowered with no floor
DecayedPastFloor(tm) ==
    [tm EXCEPT !.gone_bad = @ - GoneBadStep,
               !.summon_anteater = @ - SummonAnteaterStep]

\* One tick of faster_decay on the FoodDelay
Decayed(tm) ==
    [tm EXCEPT !.gone_bad = Max(@ - GoneBadStep, MinGoneBad),
               !.summon_anteater = Max(@ - SummonAnteaterStep, MinSummonAnteater)]

\* The FoodDelay after k ticks of faster_decay
RECURSIVE Accelerated(_, _)
Accelerated(tm, k) == IF k = 0 THEN tm ELSE Decayed(Accelerated(tm, k - 1))

\* The ticks of faster_decay that bring the summon delay, and both delays, to
\* the floor
SummonFloorTicks ==
    (DefaultSummonAnteater - MinSummonAnteater) \div SummonAnteaterStep
GoneBadFloorTicks == (DefaultGoneBad - MinGoneBad) \div GoneBadStep

\* food.rs faster_decay: every 30 s of Playing the delays get shorter
faster_decay ==
    /\ Runs("faster_decay")
    /\ LET t == TimerTick(timers.decay, DecayPeriod, timers.delta)
       IN  /\ timers' = [IF t[2] THEN Decayed(timers) ELSE timers
                            EXCEPT !.decay = t[1]]
           /\ last' = [sys |-> "faster_decay", fired |-> t[2]]
    /\ pc' = Done
    /\ UNCHANGED <<state, hill, data, bonuses, hillEvents, worldEvents, ants,
                   heaps, pellets, anteaters, cmds, nextId, now, frame, fault>>

\* on_exit(Playing): the pass of the on_update(Playing) systems is over and
\* its Commands are applied, then despawn_all despawns every entity.  The
\* end screen that follows has no system that reads the events still queued.
despawn_all ==
    /\ state \in {"Lost", "Won"} /\ fault = "none" /\ pc.todo # <<>>
    /\ LET w == ApplyCommands(World, cmds)
       IN  /\ nextId' = w.nextId
           /\ fault' = w.fault
    /\ ants' = <<>>
    /\ heaps' = <<>>
    /\ pellets' = <<>>
    /\ anteaters' = <<>>
    /\ cmds' = <<>>
    /\ pc' = [pc EXCEPT !.todo = <<>>]
    /\ last' = [sys |-> "despawn_all", ants |-> Len(ants)]
    /\ UNCHANGED <<state, hill, data, bonuses, hillEvents, worldEvents, timers,
                   now, frame>>

\* RestartButton with a fault: the button of one end screen leads to the other
RestartButtonAcross(screen) == IF screen = "Lost" THEN "Won" ELSE "Lost"

\* lost_stats, won_stats: let _ = state.set(GameState::Playing)
RestartButton(screen) == "Playing"

\* The Restart! button of an end screen is clicked: on_exit(screen) runs
\* despawn_all, on_enter(Playing) runs restart_game, and the frame goes on
\* with the on_update(Playing) systems.  The click is a press and a release,
\* so it comes two frames after the screen at the earliest: Events::update
\* has dropped the events of the last Playing frame by then.
Restart(screen) ==
    /\ state = screen /\ fault = "none" /\ pc.todo = <<>>
    /\ frame < pc.limit
    /\ \E dt \in Deltas(timers) :
          /\ timers' = Restarted(timers, dt)
          /\ now' = now + dt
    /\ state' = RestartButton(screen)
    /\ hill' = AntHillDefault
    /\ data' = GraphDataFromAnthill(AntHillDefault, now')
    /\ bonuses' = BonusesDefault
    /\ hillEvents' = <<>>
    /\ worldEvents' = <<SpawnFood(TRUE)>>
    /\ ants' = <<>>
    /\ heaps' = <<>>
    /\ pellets' = <<>>
    /\ anteaters' = <<>>
    /\ frame' = frame + 1
    /\ pc' = [pc EXCEPT !.todo = pc.schedule]
    /\ UNCHANGED <<cmds, nextId, fault>>

lost_stats ==
    /\ Restart("Lost")
    /\ last' = [sys |-> "lost_stats", timers |-> timers, data |-> data]

won_stats ==
    /\ Restart("Won")
    /\ last' = [sys |-> "won_stats", timers |-> timers, data |-> data]

\* The populations a session is taken up with: nobody, one forager, the
\* largest population that does not win, the smallest that does
Crowds == {0, 1, WinAnts, WinAnts + 1}

Crowd(n) ==
    [i \in 1..n |-> [NewCreature(AntHillDefault.gene, Gene(0, 0, 0, 0), SplashTime)
                       EXCEPT !.id = i]]

\* The queen's food a session is taken up with: the default, one short of
\* the winning amount, the winning amount
QueenFoods == {DefaultQueenFood, WinQueenFood - 1, WinQueenFood}

\* A session that is under way: the state of a Playing frame about to start,
\* with the sample timer one frame short (sample FALSE: a whole period short)
\* and after so many ticks of faster_decay
UnderWay(crowd, seen, queen, heap, sample, ticks) ==
    LET w == ApplyCommands(
                [ants |-> Crowd(crowd), heaps |-> <<>>, pellets |-> <<>>,
                 anteaters |-> <<>>, nextId |-> crowd + 1, fault |-> "none"],
                IF heap THEN <<[op |-> "spawn_heap", pos |-> MaxPos, offsets |-> <<0>>]>>
                ELSE <<>>)
        h == [AntHillDefault EXCEPT !.queen_food = queen, !.food = 0]
        d == GraphDataFromAnthill(h, SplashTime)
    IN  /\ state = "Playing"
        /\ hill = h
        /\ data = Mirror([d EXCEPT !.max_ants = seen,
                                   !.total_ants = Max(seen, crowd),
                                   !.nb_ants = Tail(Append(@, seen))], h)
        /\ bonuses = BonusesDefault
        /\ hillEvents = <<>>
        /\ worldEvents = <<>>
        /\ ants = w.ants
        /\ heaps = w.heaps
        /\ pellets = w.pellets
        /\ anteaters = w.anteaters
        /\ cmds = <<>>
        /\ nextId = w.nextId
        /\ \E dt \in Deltas(TimersInit) :
              timers = [Accelerated(Clocked(TimersInit, dt), ticks) EXCEPT
                           !.sample = IF sample THEN SamplePeriod - FrameDelta ELSE 0]
        /\ now = SplashTime + SamplePeriod
        /\ frame = 0
        /\ pc = [todo |-> SessionSchedule, schedule |-> SessionSchedule,
                 limit |-> MaxSessionFrames]
        /\ fault = "none"
        /\ last = [sys |-> "end_frame"]

\* The session from the Splash screen on, or one that is under way
SessionInit ==
    \/ /\ state = "Splash"
       /\ hill = AntHillDefault
       /\ data = GraphDataFromAnthill(AntHillDefault, 0)
       /\ bonuses = BonusesDefault
       /\ hillEvents = <<>>
       /\ worldEvents = <<>>
       /\ ants = <<>>
       /\ heaps = <<>>
       /\ pellets = <<>>
       /\ anteaters = <<>>
       /\ cmds = <<>>
       /\ nextId = 1
       /\ timers = TimersInit
       /\ now = 0
       /\ frame = 0
       /\ pc = [todo |-> <<>>, schedule |-> SessionSchedule,
                limit |-> MaxSessionFrames]
       /\ fault = "none"
       /\ last = [sys |-> "none"]
    \/ \E crowd \in Crowds, seen \in {0, 1}, queen \in QueenFoods,
          heap \in BOOLEAN, sample \in BOOLEAN, ticks \in {0, GoneBadFloorTicks} :
          UnderWay(crowd, seen, queen, heap, sample, ticks)

SessionNext ==
    \/ restart_game
    \/ hill_events
    \/ use_food
    \/ evolve_hills
    \/ faster_decay
    \/ overall_ui
    \/ update_graph_data
    \/ apply_buffers
    \/ end_frame
    \/ despawn_all
    \/ lost_stats
    \/ won_stats

SessionSpec == SessionInit /\ [][SessionNext]_vars

-----------------------------------------------------------------------------
(* C14 *)

\* The moves of the session state the specification allows
SessionMoves ==
    { <<"Splash", "Playing">>, <<"Playing", "Lost">>, <<"Playing", "Won">>,
      <<"Lost", "Playing">>, <<"Won", "Playing">> }

\* C14: the session state only ever moves Splash -> Playing, Playing -> Lost,
\* Playing -> Won, Lost -> Playing and Won -> Playing: no step enters Splash,
\* enters Lost or Won from anything but Playing, or goes between Lost and Won
C14_SessionMoves ==
    [][state' # state => <<state, state'>> \in SessionMoves]_vars

\* A session was lost and the Restart! button has led back to Playing
C14_Witness ==
    /\ last.sys = "lost_stats"
    /\ state = "Playing"
    /\ frame > 0

-----------------------------------------------------------------------------
(* C15 *)

\* Some sample of the history of this session counted a forager
Observed == \E i \in DOMAIN data.nb_ants : data.nb_ants[i] > 0

SampleFires == TimerTick(timers.sample, SamplePeriod, timers.delta)[2]

\* C15: on a population sample tick in Playing the session becomes Lost when
\* a forager was counted before and none is counted now; otherwise Won when
\* queen_food >= 200, or the population is above 100 and there is neither a
\* pellet nor a predator; otherwise it stays Playing.  Lost is not declared
\* while no forager has been counted, and between sample ticks
\* update_graph_data leaves the session state alone.
C15_SampleVerdict ==
    [][Runs("update_graph_data") /\ pc' = Done =>
          IF SampleFires
          THEN /\ state' = IF Observed /\ Len(ants) = 0 THEN "Lost"
                           ELSE IF \/ hill.queen_food >= 200
                                   \/ /\ Len(ants) > 100
                                      /\ pellets = <<>>
                                      /\ anteaters = <<>>
                                THEN "Won"
                                ELSE "Playing"
               /\ ~Observed => state' # "Lost"
          ELSE state' = "Playing"]_vars

\* The sample tick has declared the session won for its population: the
\* queen is short of her winning amount
C15_Witness ==
    /\ last.sys = "update_graph_data"
    /\ last.fired
    /\ state = "Won"
    /\ hill.queen_food < WinQueenFood
    /\ Len(ants) > WinAnts

-----------------------------------------------------------------------------
(* C16 *)

FoodSpawns(evs) == {i \in DOMAIN evs : evs[i].type = "SpawnFood"}

\* C16: every step that enters Playing, from Splash or from an end screen,
\* leaves the colony ledger at worker food 50, queen food 5, the default
\* genome, a wave of 10, no mutation bias and no returning genome; the decay
\* delay at 45 s, the summon delay at 15 s and the food timer at its start;
\* the population history at zero with the counters at zero; the upgrade
\* costs at their first values; and exactly one food spawn requested
C16_PlayingEntryResets ==
    [][state # "Playing" /\ state' = "Playing" =>
          /\ hill'.food = 50
          /\ hill'.queen_food = 5
          /\ hill'.gene = Gene(600, 500, 10, 1600)
          /\ hill'.spawn_per_wave = 10 * 4
          /\ hill'.mutation_improvement = 0
          /\ hill'.gatherer_genes = <<>>
          /\ timers'.gone_bad = 4500
          /\ timers'.summon_anteater = 1500
          /\ timers'.food = FoodElapsed
          /\ \A i \in DOMAIN data'.nb_ants : data'.nb_ants[i] = 0
          /\ data'.max_ants = 0
          /\ data'.total_ants = 0
          /\ data'.start_time = now'
          /\ ~data'.can_summon_food
          /\ ~data'.appocalypse
          /\ bonuses'.spawn_cost = 10
          /\ bonuses'.improve_wave_cost = 10
          /\ bonuses'.improve_speed_cost = 5
          /\ bonuses'.improve_life_cost = 5
          /\ bonuses'.improve_antennas_cost = 5
          /\ bonuses'.improve_mutation_cost = 15
          /\ bonuses' = BonusesDefault
          /\ Cardinality(FoodSpawns(worldEvents')) = 1]_vars

\* A session whose delays had got shorter and whose queen had her winning
\* amount of food was won, and the Restart! button has led back to Playing
C16_Witness ==
    /\ last.sys = "won_stats"
    /\ state = "Playing"
    /\ last.timers.gone_bad < DefaultGoneBad
    /\ last.data.queen_food >= WinQueenFood
    /\ hill = AntHillDefault

-----------------------------------------------------------------------------
(* C17 *)

\* C17: a restart from an end screen leaves no entity and no timer progress
\* or counter of the session before: the new session starts with no forager,
\* heap, pellet or predator, and with the evolution timer, the timer of
\* faster_decay, the population sample timer and the apocalypse corner as
\* they were when the first session started.  The timers and the corner are
\* state of their systems (EvolveTimer is inserted when the plugin is built,
\* the others are Local), restart_game does not touch them: refuted.
C17_RestartClearsAll ==
    [][state' = "Playing" /\ state \in {"Lost", "Won"} =>
          /\ ants' = <<>>
          /\ heaps' = <<>>
          /\ pellets' = <<>>
          /\ anteaters' = <<>>
          /\ timers'.evolve = TimersInit.evolve
          /\ timers'.decay = TimersInit.decay
          /\ timers'.sample = TimersInit.sample
          /\ timers'.corner = TimersInit.corner]_vars

-----------------------------------------------------------------------------
(* C18 *)

\* The moves of a forager's state the specification allows
ForagerMoves ==
    { <<"Wander", "PickFood">>, <<"PickFood", "HasFood">>, <<"HasFood", "Wander">> }

\* The commands of cs that despawn the entity id
Despawns(cs, id) ==
    {c \in DOMAIN cs : cs[c].op \in {"despawn", "despawn_recursive"} /\ cs[c].id = id}

\* C18: a forager that enters the world is in Wander; in any step a forager's
\* state stays as it is or moves Wander -> PickFood, PickFood -> HasFood or
\* HasFood -> Wander (a change of the target or of the pellet inside PickFood
\* is no such move, and does not happen); and move_ants neither removes a
\* forager nor queues a command that despawns one
C18_ForagerMoves ==
    [][/\ \A k \in DOMAIN ants' :
             IF ants'[k].id \in Ids(ants)
             THEN \/ ants'[k].state = Entity(ants, ants'[k].id).state
                  \/ <<Entity(ants, ants'[k].id).state[1], ants'[k].state[1]>>
                         \in ForagerMoves
             ELSE ants'[k].state = Wander
       /\ move_ants =>
             /\ Ids(ants') = Ids(ants)
             /\ \A k \in DOMAIN ants :
                   Despawns(cmds', ants[k].id) = Despawns(cmds, ants[k].id)]_vars

\* A forager has come home with its pellet and wanders again: it has gone
\* through the three moves
C18_Witness ==
    /\ last.sys = "move_ants"
    /\ \E s \in DOMAIN last.steps :
          /\ last.steps[s].from = HasFood
          /\ last.steps[s].to = Wander
          /\ last.steps[s].id \in Ids(ants)

-----------------------------------------------------------------------------
(* C19 *)

\* The heap a forager at pos looks at: within sensing range and no heap
\* nearer, the first of them in the order of the query when several are as
\* near.  The set is empty or has one index.
Looked(pos) ==
    {h \in DOMAIN heaps :
        /\ InRange(heaps[h], pos)
        /\ \A g \in DOMAIN heaps :
              \/ DistSq(heaps[g].pos, pos) > DistSq(heaps[h].pos, pos)
              \/ DistSq(heaps[g].pos, pos) = DistSq(heaps[h].pos, pos) /\ g >= h}

\* The pellets of heap h, in the order of its Children, that are not targeted
Untargeted(h, targeted) ==
    SelectSeq(LivePellets(h, pellets), LAMBDA c : c \notin targeted)

\* C19: a forager in Wander claims only from the nearest heap, and only when
\* that heap is within sensing range: it goes to PickFood on the first
\* untargeted pellet of that heap in storage order, and that pellet's flag
\* alone becomes true.  With no heap in range, or with no untargeted pellet
\* in the nearest heap, it stays in Wander and no flag changes, whatever the
\* other heaps in range hold.
C19_NearestHeapOnly ==
    [][move_ants =>
         \A s \in DOMAIN last'.steps :
             last'.steps[s].from = Wander =>
                 LET step == last'.steps[s]
                     free == UNION {{Untargeted(heaps[h], step.before)}
                                       : h \in Looked(step.pos)} \ {<<>>}
                 IN  /\ Cardinality(Looked(step.pos)) <= 1
                     /\ IF free = {}
                        THEN step.to = Wander /\ step.after = step.before
                        ELSE \A f \in free :
                                /\ step.to = PickFood(Entity(pellets, Head(f)).pos,
                                                      Head(f))
                                /\ step.after = step.before \cup {Head(f)}]_vars

\* A forager stays in Wander beside a nearest heap whose pellets are all
\* targeted, while a heap farther away in range has an untargeted pellet
C19_Witness ==
    /\ last.sys = "move_ants"
    /\ \E s \in DOMAIN last.steps :
          /\ last.steps[s].from = Wander
          /\ last.steps[s].to = Wander
          /\ \E h \in Looked(last.steps[s].pos) :
                /\ LivePellets(heaps[h], pellets) # <<>>
                /\ Untargeted(heaps[h], last.steps[s].before) = <<>>
          /\ \E g \in DOMAIN heaps :
                /\ InRange(heaps[g], last.steps[s].pos)
                /\ Untargeted(heaps[g], last.steps[s].before) # <<>>

-----------------------------------------------------------------------------
(* A reservation under way: a forager has claimed the first pellet of a    *)
(* far heap from within sensing range and heads for it, and the heap may   *)
(* have gone bad and summoned its predator meanwhile.  The frames of       *)
(* ants.rs and ant_eaters.rs with remove_empty_heaps and hill_events, stage *)
(* by stage.                                                                *)

MaxReservedFrames == 5

ReservedSchedule ==
    <<"anteaters_consume_ants", "apply_buffers",
      "move_ants", "hill_events", "move_anteaters", "anteaters_consume_food",
      "apply_buffers",
      "remove_empty_heaps", "anteaters_die", "apply_buffers">>

\* The cells of the line from which the forager has claimed: the heap is its
\* nearest heap and within sensing range
ClaimCells(heap) == {a \in 0..MaxPos : DistSq(heap, a) < SensingSq}

\* The world with a far heap of n pellets whose first pellet the forager at
\* cell a has claimed; summoned: the heap has gone bad and its predator has
\* just been spawned on it
Reserving(n, a, summoned) ==
    LET empty == [ants |-> <<>>, heaps |-> <<>>, pellets |-> <<>>,
                  anteaters |-> <<>>, nextId |-> 1, fault |-> "none"]
        heap == CHOOSE c \in FarCells : TRUE
        w1 == ApplyCommand(empty, [op |-> "spawn_heap", pos |-> heap,
                                   offsets |-> Offsets(n)])
        first == Head(w1.heaps[1].children)
        w2 == ApplyCommand([w1 EXCEPT !.pellets = Claim(@, first)],
                  [op |-> "spawn",
                   creature |-> [KeyCreature(SplashTime) EXCEPT
                                    !.pos = a,
                                    !.state = PickFood(Entity(w1.pellets, first).pos,
                                                       first)]])
        w3 == ApplyCommand(w2, [op |-> "warn", id |-> w2.heaps[1].id,
                                    delay |-> SummonDelay(DefaultSummonAnteater,
                                                  w2.heaps[1].start_count)])
        w4 == ApplyCommand(
                 [w3 EXCEPT !.heaps[1].gone_bad = TRUE,
                            !.heaps[1].anteater_timer = "finished"],
                 [op |-> "spawn_anteater", pos |-> heap])
    IN  IF summoned THEN w4 ELSE w2

ReservedInit ==
    /\ state = "Playing"
    /\ hill = AntHillDefault
    /\ data = GraphDataFromAnthill(AntHillDefault, SplashTime)
    /\ bonuses = BonusesDefault
    /\ hillEvents = <<>>
    /\ worldEvents = <<>>
    /\ \E n \in HeapSizes, summoned \in BOOLEAN :
          \E a \in ClaimCells(CHOOSE c \in FarCells : TRUE) :
             LET w == Reserving(n, a, summoned)
             IN  /\ ants = w.ants
                 /\ heaps = w.heaps
                 /\ pellets = w.pellets
                 /\ anteaters = w.anteaters
                 /\ nextId = w.nextId
    /\ cmds = <<>>
    /\ \E dt \in Deltas(TimersInit) : timers = Clocked(TimersInit, dt)
    /\ now = SplashTime + SamplePeriod
    /\ frame = 0
    /\ pc = [todo |-> ReservedSchedule, schedule |-> ReservedSchedule,
             limit |-> MaxReservedFrames]
    /\ fault = "none"
    /\ last = [sys |-> "end_frame"]

ReservedNext ==
    \/ anteaters_consume_ants
    \/ move_ants
    \/ hill_events
    \/ move_anteaters
    \/ anteaters_consume_food
    \/ remove_empty_heaps
    \/ anteaters_die
    \/ apply_buffers
    \/ end_frame

ReservedSpec == ReservedInit /\ [][ReservedNext]_vars

-----------------------------------------------------------------------------
(* C20 *)

\* The number of pellets of heap h
PelletsOf(ps, h) == Cardinality({i \in DOMAIN ps : ps[i].heap = h})

\* The pellets of heap h that the queued commands cs take out of the world
TakenFrom(cs, ps, h) ==
    {cs[c].id : c \in {k \in DOMAIN cs : /\ cs[k].op \in {"despawn", "eat"}
                                         /\ cs[k].id \in Ids(ps)
                                         /\ Entity(ps, cs[k].id).heap = h}}

\* C20: a forager in PickFood(target, pellet) within the pickup radius of
\* target goes to HasFood and its pellet, which is in the world, is removed:
\* one despawn is queued for it, the stage's end takes it out of its heap's
\* pellets, a pellet taken out never comes back, and only a pellet that is in
\* the world with no despawn queued is ever claimed.  Outside the radius the
\* forager keeps PickFood with the same target and pellet.  Refuted: a
\* forager whose pellet a predator has eaten goes to HasFood all the same.
C20_PickupRemovesPellet ==
    [][/\ move_ants =>
             \A s \in DOMAIN last'.steps :
                 LET step == last'.steps[s]
                 IN  /\ IsPickFood(step.from) =>
                            IF DistSq(step.pos, step.from[2]) < PickSq
                            THEN /\ step.to = HasFood
                                 /\ step.from[3] \in Ids(pellets)
                                 /\ Cardinality(Despawns(cmds', step.from[3])) = 1
                            ELSE step.to = step.from
                     /\ (step.from = Wander /\ IsPickFood(step.to)) =>
                            /\ step.to[3] \in Ids(pellets)
                            /\ Despawns(cmds, step.to[3]) = {}
       /\ (apply_buffers /\ fault' = "none") =>
             \A c \in DOMAIN cmds :
                 (cmds[c].op = "despawn" /\ cmds[c].id \in Ids(pellets)) =>
                     LET h == Entity(pellets, cmds[c].id).heap
                     IN  /\ cmds[c].id \notin Ids(pellets')
                         /\ \/ PelletsOf(pellets', h) = 0
                            \/ PelletsOf(pellets', h) = PelletsOf(pellets, h)
                                   - Cardinality(TakenFrom(cmds, pellets, h))
       /\ \A i \in DOMAIN pellets' :
             pellets'[i].id \in Ids(pellets) \/ pellets'[i].id >= nextId]_vars

-----------------------------------------------------------------------------
(* Steering: a forager and a fresh predator on a line whose terrain may    *)
(* put an obstacle between them and the colony.                            *)

MaxSteerFrames == 4

SteerSchedule == <<"move_ants", "move_anteaters", "apply_buffers">>

\* The terrains: open, or one obstacle in the middle of the line
Terrains == {{}, {MaxPos \div 2}}

\* A wandering forager in cell a, and a predator just spawned in cell p
Steering(a, p) ==
    LET empty == [ants |-> <<>>, heaps |-> <<>>, pellets |-> <<>>,
                  anteaters |-> <<>>, nextId |-> 1, fault |-> "none"]
        w1 == ApplyCommand(empty, [op |-> "spawn",
                  creature |-> [KeyCreature(SplashTime) EXCEPT !.pos = a]])
    IN  ApplyCommand(w1, [op |-> "spawn_anteater", pos |-> p])

SteerInit ==
    /\ state = "Playing"
    /\ hill = AntHillDefault
    /\ data = GraphDataFromAnthill(AntHillDefault, SplashTime)
    /\ bonuses = BonusesDefault
    /\ hillEvents = <<>>
    /\ worldEvents = <<>>
    /\ \E walls \in Terrains :
          /\ pc = [todo |-> SteerSchedule, schedule |-> SteerSchedule,
                   limit |-> MaxSteerFrames, walls |-> walls]
          /\ \E a \in (0..(MaxPos \div 2)) \ walls,
                p \in ((MaxPos \div 2)..MaxPos) \ walls :
                LET w == Steering(a, p)
                IN  /\ ants = w.ants
                    /\ heaps = w.heaps
                    /\ pellets = w.pellets
                    /\ anteaters = w.anteaters
                    /\ nextId = w.nextId
    /\ cmds = <<>>
    /\ \E dt \in Deltas(TimersInit) : timers = Clocked(TimersInit, dt)
    /\ now = SplashTime + SamplePeriod
    /\ frame = 0
    /\ fault = "none"
    /\ last = [sys |-> "end_frame"]

SteerNext ==
    \/ move_ants
    \/ move_anteaters
    \/ apply_buffers
    \/ end_frame

SteerSpec == SteerInit /\ [][SteerNext]_vars

-----------------------------------------------------------------------------
(* C21 *)

\* The effect of one tick on an agent for the probe of heading dir: blocked,
\* the position is kept and wander_strength grows by 0.5; free, the cell
\* ahead is entered and wander_strength is set to reset
ProbeEffect(before, after, dir, reset) ==
    IF dir # 0 /\ is_obstacle(before.pos + dir)
    THEN after.pos = before.pos
         /\ after.wander_strength = before.wander_strength + BlockedWander
    ELSE after.pos = before.pos + dir
         /\ after.wander_strength = reset

\* wander_strength is base plus a whole number of blocked ticks
BlockedSince(agent, base) ==
    /\ agent.wander_strength >= base
    /\ (agent.wander_strength - base) % BlockedWander = 0

\* C21, as amended: in a tick whose probe is an obstacle the agent keeps its
\* position and its wander_strength grows by exactly 0.5; in a tick whose
\* probe is free the agent advances and its wander_strength is set to a fixed
\* value, 0.1 for a forager and 0.5 for a predator.  A forager's
\* wander_strength is 0.1 + 0.5 k; a predator is spawned with 0.2, so its
\* wander_strength is 0.2 + 0.5 k until its first free tick and 0.5 + 0.5 k
\* from then on.
C21_ProbeEffect ==
    [][/\ move_ants =>
             /\ Len(ants') = Len(ants)
             /\ \A i \in DOMAIN ants :
                   \E dir \in {-1, 0, 1} :
                       ProbeEffect(ants[i], ants'[i], dir, AntWander)
       /\ move_anteaters =>
             /\ Len(anteaters') = Len(anteaters)
             /\ \A i \in DOMAIN anteaters :
                   \E dir \in {-1, 0, 1} :
                       ProbeEffect(anteaters[i], anteaters'[i], dir, AntEaterMoved)
       /\ \A i \in DOMAIN ants' : BlockedSince(ants'[i], AntWander)
       /\ \A i \in DOMAIN anteaters' :
             \/ BlockedSince(anteaters'[i], AntEaterMoved)
             \/ BlockedSince(anteaters'[i], AntEaterWander)]_vars

\* A forager blocked twice in a row, and a predator blocked once since its
\* last free tick
C21_Witness ==
    /\ "walls" \in DOMAIN pc
    /\ \E i \in DOMAIN ants :
          ants[i].wander_strength = AntWander + 2 * BlockedWander
    /\ \E i \in DOMAIN anteaters :
          anteaters[i].wander_strength = AntEaterMoved + BlockedWander

\* C21 as stated: the wander_strength of every agent is the value a free tick
\* resets it to plus 0.5 for each blocked tick since.  Refuted: a predator is
\* spawned with 0.2 and a free tick sets 0.5.
C21_BasePlusBlockedTicks ==
    /\ \A i \in DOMAIN ants : BlockedSince(ants[i], AntWander)
    /\ \A i \in DOMAIN anteaters : BlockedSince(anteaters[i], AntEaterMoved)

-----------------------------------------------------------------------------
(* The evolution tick on a queue of returned genomes (MeanSpec)            *)

MaxReturned == 3

\* The genomes that come back: foragers spawned with the lowest and with the
\* highest noise, and a forager of a colony worn by its dead predators
ReturnedGenes ==
    {MutatedGene(AntHillDefault.gene, n) : n \in Noises} \cup {WornGene}

Queues == UNION {[1..n -> ReturnedGenes] : n \in 0..MaxReturned}

MeanInit ==
    /\ state = "Playing"
    /\ \E g \in {AntHillDefault.gene, WornGene}, q \in Queues,
          m \in {0, BonusesDefault.improve_mutation,
                 2 * BonusesDefault.improve_mutation} :
          hill = [AntHillDefault EXCEPT !.gene = g, !.gatherer_genes = q,
                                        !.mutation_improvement = m]
    /\ data = GraphDataFromAnthill(hill, SplashTime)
    /\ bonuses = BonusesDefault
    /\ hillEvents = <<>>
    /\ worldEvents = <<>>
    /\ ants = <<>>
    /\ heaps = <<>>
    /\ pellets = <<>>
    /\ anteaters = <<>>
    /\ cmds = <<>>
    /\ nextId = 1
    /\ \E dt \in Deltas(TimersInit) : timers = Clocked(TimersInit, dt)
    /\ now = SplashTime
    /\ frame = 0
    /\ pc = [todo |-> HillSchedule, schedule |-> HillSchedule,
             limit |-> MaxLedgerFrames]
    /\ fault = "none"
    /\ last = [sys |-> "restart_game"]

MeanSpec == MeanInit /\ [][LedgerNext]_vars

-----------------------------------------------------------------------------
(* C22 *)

Traits == {"life_expectancy", "max_speed", "wander_strength", "antennas"}

RECURSIVE TraitSum(_, _)
TraitSum(genes, t) ==
    IF genes = <<>> THEN 0 ELSE Head(genes)[t] + TraitSum(Tail(genes), t)

\* What the divisions of a running mean over k returned genomes can round
\* off, times the number of genomes of the mean
Rounding(k) == (k * (k + 1)) \div 2

\* mean is the arithmetic mean of g and the genomes of the queue, rounded
IsMean(mean, g, queue, t) ==
    LET total == g[t] + TraitSum(queue, t)
        n == Len(queue) + 1
    IN  /\ n * mean <= total
        /\ total <= n * mean + Rounding(Len(queue))

Bias(h, t) == IF t = "wander_strength" THEN 0 ELSE h.mutation_improvement

\* C22: an evolution tick sets every trait of the colony genome to the
\* arithmetic mean of the colony genome and the genomes of the queue (as the
\* running mean rounds it), whatever the order of the queue, plus the
\* mutation bias for max_speed, life_expectancy and antennas; the
\* wander_strength is the mean alone, whatever the bias.
C22_MeanThenBias ==
    [][(evolve_hills /\ last'.fired) =>
          LET queue == hill.gatherer_genes
          IN  /\ \A t \in Traits :
                    IsMean(hill'.gene[t] - Bias(hill, t), hill.gene, queue, t)
              /\ \A f \in Permutations(DOMAIN queue) :
                    LET other == Evolved([hill EXCEPT !.gatherer_genes =
                                     [i \in DOMAIN queue |-> queue[f[i]]]]).gene
                    IN  \A t \in Traits :
                           IsMean(other[t] - Bias(hill, t), hill.gene, queue, t)
              /\ \A m \in {0, BonusesDefault.improve_mutation} :
                    Evolved([hill EXCEPT !.mutation_improvement = m])
                        .gene.wander_strength = hill'.gene.wander_strength
              /\ hill'.gatherer_genes = queue]_vars

\* An evolution tick with a bias over a full queue of genomes that differ
\* from one another and from the colony genome in wander_strength
C22_Witness ==
    /\ last.sys = "evolve_hills"
    /\ last.fired
    /\ last.hill.mutation_improvement > 0
    /\ Len(last.hill.gatherer_genes) = MaxReturned
    /\ \E i, j \in DOMAIN last.hill.gatherer_genes :
          /\ last.hill.gatherer_genes[i].wander_strength
                 # last.hill.gatherer_genes[j].wander_strength
          /\ last.hill.gatherer_genes[i].life_expectancy
                 # last.hill.gatherer_genes[j].life_expectancy
    /\ hill.gene # last.hill.gene

-----------------------------------------------------------------------------
(* C23 *)

\* The colony genomes at the SpawnAnts events of evs, the events before them
\* applied
SpawnGenes(h, evs, t) ==
    UNION {{r.hill.gene : r \in HillEventsResults(h, 0, SubSeq(evs, 1, k - 1), t)} :
             k \in {e \in DOMAIN evs : evs[e].type = "SpawnAnts"}}

NoiseBound(t) ==
    CASE t = "life_expectancy" -> MutationLifeExpectancy
      [] t = "max_speed" -> MutationMaxSpeed
      [] t = "wander_strength" -> MutationWanderStrength
      [] t = "antennas" -> MutationAntennas

\* creature is a fresh forager of a colony of genome g
FreshFrom(creature, g) ==
    /\ creature.state = Wander
    /\ creature.pos = 0
    /\ creature.wander_strength = g.wander_strength
    /\ \A t \in Traits :
          /\ creature.gene[t] - g[t] <= NoiseBound(t)
          /\ g[t] - creature.gene[t] <= NoiseBound(t)

-----------------------------------------------------------------------------
(* C24 *)

\* The spawns of foragers that wait in the queue of commands
Queued(cs) == Len(SelectSeq(cs, LAMBDA c : c.op = "spawn"))

\* The foragers that enter the world in a step
Entered(before, after) == Cardinality(Ids(after) \ Ids(before))

\* C24: the total-spawned counter counts the foragers created: a step that
\* creates foragers (queues their spawn) raises data.total_ants by their
\* number, and a step that lets queued foragers enter the world takes as many
\* spawns from the queue and leaves the counter.  Refuted:
\* spawn_ant queues a forager for a pressed Space key and leaves the counter.
C24_CounterCountsForagers ==
    [][data'.total_ants - data.total_ants
           = Queued(cmds') + Entered(ants, ants') - Queued(cmds)]_vars

-----------------------------------------------------------------------------
(* The heaps: the food systems and the predators they summon, on a terrain *)
(* that may have an obstacle next to the far heaps, with the clock of the  *)
(* AntEaterTimers kept (FoodSpec)                                          *)

MaxFoodFrames == 3

FoodSchedule ==
    <<"spawn_food", "food_gone_bad", "enter_the_anteater", "pop_food",
      "faster_decay", "spawn_anteaters", "move_anteaters",
      "anteaters_consume_food", "apply_buffers",
      "remove_empty_heaps", "apply_buffers">>

\* A far heap of n pellets that went bad under the summon delay base, and
\* whose AntEaterTimer has run for all of its delay but short
Decaying(n, base, short) ==
    LET empty == [ants |-> <<>>, heaps |-> <<>>, pellets |-> <<>>,
                  anteaters |-> <<>>, nextId |-> 1, fault |-> "none"]
        heap == CHOOSE c \in FarCells : TRUE
        w1 == ApplyCommand(empty, [op |-> "spawn_heap", pos |-> heap,
                                   offsets |-> FreeOffsets(heap, n)])
        w2 == ApplyCommand(w1, [op |-> "warn", id |-> w1.heaps[1].id,
                                delay |-> SummonDelay(base, w1.heaps[1].start_count)])
    IN  [w2 EXCEPT !.heaps[1].gone_bad = TRUE,
                   !.heaps[1].summon_elapsed = w2.heaps[1].summon_delay - short]

FoodInit ==
    /\ state = "Playing"
    /\ hill = AntHillDefault
    /\ data = GraphDataFromAnthill(AntHillDefault, SplashTime)
    /\ bonuses = BonusesDefault
    /\ hillEvents = <<>>
    /\ ants = <<>>
    /\ cmds = <<>>
    /\ \E walls \in Terrains :
          pc = [todo |-> FoodSchedule, schedule |-> FoodSchedule,
                limit |-> MaxFoodFrames, walls |-> walls, clocked |-> TRUE]
    /\ \E k \in {0, SummonFloorTicks} :
          /\ \E dt \in Deltas(TimersInit) :
                timers = Accelerated(Clocked(TimersInit, dt), k)
          /\ \/ /\ k = 0
                /\ worldEvents = <<SpawnFood(TRUE)>>
                /\ heaps = <<>>
                /\ pellets = <<>>
                /\ anteaters = <<>>
                /\ nextId = 1
             \/ \E n \in HeapSizes, short \in {FrameDelta + 1, 2 * FrameDelta + 1} :
                   LET w == Decaying(n, timers.summon_anteater, short)
                   IN  /\ worldEvents = <<>>
                       /\ heaps = w.heaps
                       /\ pellets = w.pellets
                       /\ anteaters = w.anteaters
                       /\ nextId = w.nextId
    /\ now = SplashTime + SamplePeriod
    /\ frame = 0
    /\ fault = "none"
    /\ last = [sys |-> "end_frame"]

FoodNext ==
    \/ spawn_food
    \/ food_gone_bad
    \/ enter_the_anteater
    \/ pop_food
    \/ faster_decay
    \/ spawn_anteaters
    \/ move_anteaters
    \/ anteaters_consume_food
    \/ remove_empty_heaps
    \/ apply_buffers
    \/ end_frame

FoodSpec == FoodInit /\ [][FoodNext]_vars

-----------------------------------------------------------------------------
(* C25 *)

HeapPellets(ps, h) == SelectSeq(ps, LAMBDA f : f.heap = h)

-----------------------------------------------------------------------------
(* C26 *)

Summoned(evs) == Len(SelectSeq(evs, LAMBDA e : e.type = "SpawnAntEater"))

\* C26: a heap goes bad, then has its warning marker and its AntEaterTimer
\* attached, then summons a predator.  The timer is set to the summon delay
\* of the frame plus 100 minus the start count of the heap, in seconds (the
\* larger the start count, the shorter the delay); it runs from the frame
\* after the marker was attached, and the heap summons in the first frame in
\* which the time run reaches the delay, once: a heap that has summoned does
\* not summon again, and a heap that was despawned summons no predator.
C26_SummonAfterWarning ==
    [][/\ food_gone_bad =>
             /\ \A k \in (Len(cmds) + 1)..Len(cmds') :
                   /\ cmds'[k].op = "warn"
                   /\ cmds'[k].id \in last'.fired
                   /\ \E i \in DOMAIN heaps :
                         /\ heaps[i].id = cmds'[k].id
                         /\ ~heaps[i].gone_bad
                         /\ heaps[i].warning = 0
                         /\ heaps[i].anteater_timer = "none"
                         /\ cmds'[k].delay = timers.summon_anteater
                               + (SummonOffset - heaps[i].start_count) * Second
                         /\ cmds'[k].delay > timers.summon_anteater
             /\ Len(cmds') - Len(cmds) = Cardinality(last'.fired)
       /\ apply_buffers =>
             \A j \in DOMAIN heaps' :
                 \A i \in DOMAIN heaps :
                     (heaps[i].id = heaps'[j].id /\ heaps'[j].warning # heaps[i].warning) =>
                         /\ heaps[i].gone_bad
                         /\ heaps[i].anteater_timer = "none"
                         /\ heaps'[j].anteater_timer = "running"
                         /\ heaps'[j].summon_elapsed = 0
                         /\ \E k \in DOMAIN cmds :
                               /\ cmds[k] = [op |-> "warn", id |-> heaps[i].id,
                                             delay |-> heaps'[j].summon_delay]
       /\ enter_the_anteater =>
             /\ Summoned(worldEvents') - Summoned(worldEvents) = Cardinality(last'.fired)
             /\ \A i \in DOMAIN heaps :
                   LET h == heaps[i]
                   IN  /\ h.id \in last'.fired <=>
                              /\ h.anteater_timer = "running"
                              /\ h.summon_elapsed < h.summon_delay
                              /\ h.summon_elapsed + timers.delta >= h.summon_delay
                       /\ h.id \in last'.fired =>
                              /\ h.warning # 0
                              /\ h.gone_bad
                              /\ heaps'[i].anteater_timer = "finished"
                              /\ \E e \in DOMAIN worldEvents' :
                                    /\ e > Len(worldEvents)
                                    /\ worldEvents'[e] = SpawnAntEater(<<h.pos, 0>>)
                       /\ (h.anteater_timer = "running" /\ h.id \notin last'.fired) =>
                              /\ heaps'[i].anteater_timer = "running"
                              /\ heaps'[i].summon_elapsed = h.summon_elapsed + timers.delta
             /\ last'.fired \subseteq Ids(heaps)
       /\ Summoned(worldEvents') > Summoned(worldEvents) => enter_the_anteater
       /\ \A i \in DOMAIN heaps, j \in DOMAIN heaps' :
             (heaps[i].id = heaps'[j].id /\ heaps[i].anteater_timer = "finished") =>
                 heaps'[j].anteater_timer = "finished"]_vars

\* A predator that a heap has summoned is in the world, and a heap whose
\* AntEaterTimer runs is about to be despawned
C26_Witness ==
    /\ anteaters # <<>>
    /\ \E k \in DOMAIN cmds :
          /\ cmds[k].op = "despawn_recursive"
          /\ cmds[k].id \in Running(heaps)

-----------------------------------------------------------------------------
(* C27 *)

\* C27: a heap with no pellet left, with or without its warning marker, is
\* despawned by remove_empty_heaps in the frame it lost its last pellet in,
\* and a heap that has a pellet is not: when a frame is over every heap has
\* at least one pellet.  Refuted: the pellet a forager picks up is despawned
\* without being taken out of the Children of its heap, so the heap that
\* foragers have emptied never counts as empty and stays.
C27_NoHeapWithoutPellets ==
    /\ last.sys = "remove_empty_heaps" =>
          \A k \in DOMAIN cmds :
              (cmds[k].op = "despawn_recursive" /\ cmds[k].id \in Ids(heaps)) =>
                  HeapPellets(pellets, cmds[k].id) = <<>>
    /\ pc.todo = <<>> =>
          \A i \in DOMAIN heaps : HeapPellets(pellets, heaps[i].id) # <<>>

-----------------------------------------------------------------------------
(* C28 *)

\* A step that starts a session: Playing is entered
SessionStarts == state # "Playing" /\ state' = "Playing"

\* C28: within a session the decay delay and the summon delay never grow and
\* stay within their floors and their defaults: a tick of faster_decay lowers
\* the decay delay by 5 s, not below 10 s, and the summon delay by 2 s, not
\* below 5 s, no other step of the session changes them, and a delay that is
\* at its floor stays there until a session starts.
C28_DelaysOnlyShorten ==
    [][/\ timers'.gone_bad \in MinGoneBad..DefaultGoneBad
       /\ timers'.summon_anteater \in MinSummonAnteater..DefaultSummonAnteater
       /\ (faster_decay /\ last'.fired) =>
             /\ timers'.gone_bad =
                   IF timers.gone_bad - GoneBadStep < MinGoneBad
                   THEN MinGoneBad ELSE timers.gone_bad - GoneBadStep
             /\ timers'.summon_anteater =
                   IF timers.summon_anteater - SummonAnteaterStep < MinSummonAnteater
                   THEN MinSummonAnteater
                   ELSE timers.summon_anteater - SummonAnteaterStep
       /\ ~SessionStarts =>
             /\ timers'.gone_bad <= timers.gone_bad
             /\ timers'.summon_anteater <= timers.summon_anteater
             /\ timers.gone_bad = MinGoneBad => timers'.gone_bad = MinGoneBad
             /\ timers.summon_anteater = MinSummonAnteater =>
                   timers'.summon_anteater = MinSummonAnteater
             /\ (timers'.gone_bad # timers.gone_bad
                   \/ timers'.summon_anteater # timers.summon_anteater) =>
                   faster_decay /\ last'.fired]_vars

\* A tick of faster_decay has left both delays at their floors
C28_Witness ==
    /\ last.sys = "faster_decay"
    /\ last.fired
    /\ timers.gone_bad = MinGoneBad
    /\ timers.summon_anteater = MinSummonAnteater

-----------------------------------------------------------------------------
(* The apocalypse: the sample tick of update_graph_data around its three   *)
(* thresholds, for every value of the corner counter (ApocalypseSpec)      *)

MaxApocalypseFrames == 2

ApocalypseSchedule == <<"update_graph_data", "spawn_anteaters", "apply_buffers">>

\* The sessions: young and small; at the three thresholds; beyond one of
\* them; a frame short of the time threshold.  elapsed is the time since the
\* session started.
Sessions ==
    {[crowd |-> 1, total |-> 1, elapsed |-> SamplePeriod],
     [crowd |-> ApocalypseAnts, total |-> ApocalypseTotal, elapsed |-> ApocalypseTime],
     [crowd |-> ApocalypseAnts + 1, total |-> ApocalypseAnts + 1, elapsed |-> SamplePeriod],
     [crowd |-> 1, total |-> ApocalypseTotal + 1, elapsed |-> SamplePeriod],
     [crowd |-> 1, total |-> 1, elapsed |-> ApocalypseTime + 1],
     [crowd |-> 1, total |-> 1, elapsed |-> ApocalypseTime - FrameDelta]}

ApocalypseInit ==
    /\ state = "Playing"
    /\ hill = AntHillDefault
    /\ bonuses = BonusesDefault
    /\ hillEvents = <<>>
    /\ worldEvents = <<>>
    /\ cmds = <<>>
    /\ anteaters = <<>>
    /\ \E s \in Sessions, latched \in BOOLEAN, corner \in 0..15 :
          LET w == ApplyCommand(
                      [ants |-> Crowd(s.crowd), heaps |-> <<>>, pellets |-> <<>>,
                       anteaters |-> <<>>, nextId |-> s.crowd + 1, fault |-> "none"],
                      [op |-> "spawn_heap", pos |-> MaxPos, offsets |-> <<0>>])
              d == GraphDataFromAnthill(AntHillDefault, SplashTime)
          IN  /\ ants = w.ants
              /\ heaps = w.heaps
              /\ pellets = w.pellets
              /\ nextId = w.nextId
              /\ data = Mirror([d EXCEPT !.max_ants = s.crowd,
                                         !.total_ants = s.total,
                                         !.nb_ants = Tail(Append(@, s.crowd)),
                                         !.appocalypse = latched], AntHillDefault)
              /\ now = SplashTime + s.elapsed
              /\ \E dt \in Deltas(TimersInit) :
                    timers = [Clocked(TimersInit, dt) EXCEPT
                                 !.sample = SamplePeriod - FrameDelta,
                                 !.corner = corner]
    /\ frame = 0
    /\ pc = [todo |-> ApocalypseSchedule, schedule |-> ApocalypseSchedule,
             limit |-> MaxApocalypseFrames]
    /\ fault = "none"
    /\ last = [sys |-> "end_frame"]

ApocalypseNext ==
    \/ update_graph_data
    \/ spawn_anteaters
    \/ apply_buffers
    \/ end_frame

ApocalypseSpec == ApocalypseInit /\ [][ApocalypseNext]_vars

-----------------------------------------------------------------------------
(* C29 *)

\* The perimeter of the apocalypse, in the order it is gone round
Perimeter ==
    <<<<Border, Border>>, <<Border, Border \div 2>>, <<Border, 0>>,
      <<Border, -(Border \div 2)>>, <<Border, -Border>>,
      <<Border \div 2, -Border>>, <<0, -Border>>, <<-(Border \div 2), -Border>>,
      <<-Border, -Border>>, <<-Border, -(Border \div 2)>>, <<-Border, 0>>,
      <<-Border, Border \div 2>>, <<-Border, Border>>,
      <<-(Border \div 2), Border>>, <<0, Border>>, <<Border \div 2, Border>>>>

Beyond(d, count, t) ==
    \/ t - d.start_time > ApocalypseTime
    \/ count > ApocalypseAnts
    \/ d.total_ants > ApocalypseTotal

\* C29: the apocalypse flag is set by the first sample tick at which the
\* session is older than 540 s, or has more than 1500 foragers, or has
\* spawned more than 6000, and no step of the session clears it.  A sample
\* tick under the flag sends one SpawnAntEater, at the waypoint that follows
\* the one before in a round of 16 distinct waypoints of the perimeter; a
\* sample tick without the flag, and a frame without a sample tick, send
\* none.
C29_ApocalypseLatched ==
    [][/\ data.appocalypse => data'.appocalypse
       /\ Cardinality({Perimeter[i] : i \in DOMAIN Perimeter}) = 16
       /\ update_graph_data =>
             IF last'.fired
             THEN /\ data'.appocalypse = (data.appocalypse \/ Beyond(data, Len(ants), now))
                  /\ IF data'.appocalypse
                     THEN /\ worldEvents' = Append(worldEvents,
                                 SpawnAntEater(Perimeter[timers.corner + 1]))
                          /\ timers'.corner = (timers.corner + 1) % 16
                     ELSE /\ worldEvents' = worldEvents
                          /\ timers'.corner = timers.corner
             ELSE /\ worldEvents' = worldEvents
                  /\ timers'.corner = timers.corner
                  /\ data'.appocalypse = data.appocalypse]_vars

\* A sample tick of an apocalypse that goes on with the session back under
\* the three thresholds, after the predator of the tick before has entered:
\* the round of the waypoints has come to its end and starts again
C29_Witness ==
    /\ last.sys = "update_graph_data"
    /\ last.fired
    /\ last.data.appocalypse
    /\ ~Beyond(last.data, Len(ants), now)
    /\ data.appocalypse
    /\ timers.corner = 0
    /\ anteaters # <<>>
    /\ worldEvents = <<SpawnAntEater(<<Border \div 2, Border>>)>>

-----------------------------------------------------------------------------
(* C30 *)

Penalties(evs) ==
    Len(SelectSeq(evs, LAMBDA e : /\ e.type \in {"ImproveLifeExpectancy", "ImproveMaxSpeed"}
                                 /\ e.boost < 0))

DespawnsOf(cs, id) ==
    {k \in DOMAIN cs : cs[k].op = "despawn_recursive" /\ cs[k].id = id}

\* C30: anteaters_die destroys the predators that are within the death
\* radius of the colony, and no other: for each of them it queues one
\* despawn and sends two ReplenishFood events, one life-expectancy penalty
\* and one max-speed penalty.  The predator is out of the world before
\* anteaters_die runs again, so that it sends its events once, no predator
\* outside the radius sends any, and no predator leaves the world otherwise.
C30_DeathOnceInRadius ==
    [][/\ anteaters_die =>
             LET sent == SubSeq(hillEvents', Len(hillEvents) + 1, Len(hillEvents'))
             IN  /\ \A i \in DOMAIN anteaters :
                       LET e == anteaters[i]
                       IN  /\ DespawnsOf(cmds, e.id) = {}
                           /\ Cardinality(DespawnsOf(cmds', e.id)) =
                                 IF (e.pos - 0) * (e.pos - 0) < DeathSq THEN 1 ELSE 0
                 /\ Len(sent) = 4 * Len(last'.dead)
                 /\ \A i \in DOMAIN last'.dead :
                       /\ (last'.dead[i].pos) * (last'.dead[i].pos) < DeathSq
                       /\ sent[4 * i - 3].type = "ReplenishFood"
                       /\ sent[4 * i - 2].type = "ReplenishFood"
                       /\ sent[4 * i - 1].type = "ImproveLifeExpectancy"
                       /\ sent[4 * i - 1].boost < 0
                       /\ sent[4 * i].type = "ImproveMaxSpeed"
                       /\ sent[4 * i].boost < 0
       /\ Penalties(hillEvents') > Penalties(hillEvents) => anteaters_die
       /\ \A i \in DOMAIN anteaters :
             anteaters[i].id \notin Ids(anteaters') =>
                 /\ apply_buffers
                 /\ DespawnsOf(cmds, anteaters[i].id) # {}
                 /\ (anteaters[i].pos) * (anteaters[i].pos) < DeathSq
       /\ apply_buffers =>
             \A i \in DOMAIN anteaters :
                 DespawnsOf(cmds, anteaters[i].id) # {} =>
                     anteaters[i].id \notin Ids(anteaters')
       /\ \A j \in DOMAIN anteaters' :
             anteaters'[j].id \in Ids(anteaters) \/ anteaters'[j].id >= nextId]_vars

\* A predator that walked into the death radius has died and is out of the
\* world, its four events sent
C30_Witness ==
    /\ last.sys = "apply_buffers"
    /\ anteaters = <<>>
    /\ frame > 0
    /\ Penalties(hillEvents) = 2
    /\ Len(hillEvents) = 4

-----------------------------------------------------------------------------
(* C31 *)

\* The history of a session that has taken no sample
NoSamples == [i \in 1..HistorySize |-> 0]

\* C31: the population history always holds exactly 240 samples and none of
\* them is above max population; a sample tick appends the current
\* population, evicts the oldest sample and raises max population to the
\* current population when that is larger; the start of a session empties
\* the history and sets max population to 0; no other step changes either.
\* So max population never decreases within a session and is the maximum of
\* the populations sampled since the session started.
C31_HistoryAndPeak ==
    [][/\ Len(data.nb_ants) = HistorySize
       /\ Len(data'.nb_ants) = HistorySize
       /\ \A i \in DOMAIN data'.nb_ants : data'.nb_ants[i] <= data'.max_ants
       /\ IF Runs("update_graph_data") /\ pc' = Done /\ SampleFires
          THEN /\ data'.nb_ants = SubSeq(data.nb_ants, 2, HistorySize) \o <<Len(ants)>>
               /\ data'.max_ants = Max(data.max_ants, Len(ants))
               /\ data'.max_ants >= data.max_ants
          ELSE IF SessionStarts
               THEN /\ data'.nb_ants = NoSamples
                    /\ data'.max_ants = 0
               ELSE /\ data'.nb_ants = data.nb_ants
                    /\ data'.max_ants = data.max_ants]_vars

\* A sample tick has counted the largest population that does not win, in a
\* session whose max population was 1: the sample is the newest of the
\* history, the sample of 1 has moved one place towards the front
C31_Witness ==
    /\ last.sys = "update_graph_data"
    /\ last.fired
    /\ last.data.max_ants = 1
    /\ last.data.nb_ants[HistorySize] = 1
    /\ data.max_ants = WinAnts
    /\ data.nb_ants[HistorySize] = WinAnts
    /\ data.nb_ants[HistorySize - 1] = 1
    /\ Len(data.nb_ants) = HistorySize

-----------------------------------------------------------------------------
(* The periodic food spawn: Playing frames of spawn_food and pop_food, in  *)
(* a session that starts or is under way, with the record of the latest    *)
(* periodic spawn kept                                                      *)

MaxPopFrames == 3

PopSchedule == <<"spawn_food", "pop_food", "apply_buffers">>

\* The frames of FrameDelta a new session takes to its first periodic spawn
FirstFrames == (FoodPeriod - FoodElapsed + FrameDelta - 1) \div FrameDelta

\* What the FoodTimer carries over the first periodic spawn of a session of
\* even frames
FirstCarried == FoodElapsed + FrameDelta * FirstFrames - FoodPeriod

\* Where the FoodTimer stands two even frames before the periodic spawn that
\* follows the first
TwoFramesShort ==
    FirstCarried
    + FrameDelta * ((FoodPeriod - 1 - FirstCarried) \div FrameDelta - 1)

\* The FoodTimer of a session: as restart_game leaves it, or where it stands
\* after the periodic spawn that carried FirstCarried, two frames short of
\* its period, or so that a frame that stalls leaves it two frames short
FoodTimers ==
    {FoodElapsed,
     TwoFramesShort,
     FirstCarried
     + FrameDelta * ((TwoFramesShort - (StallDelta % FoodPeriod) - FirstCarried)
                        \div FrameDelta)}

PopInit ==
    /\ state = "Playing"
    /\ hill = AntHillDefault
    /\ bonuses = BonusesDefault
    /\ hillEvents = <<>>
    /\ ants = <<>>
    /\ heaps = <<>>
    /\ pellets = <<>>
    /\ anteaters = <<>>
    /\ cmds = <<>>
    /\ nextId = 1
    /\ frame = 0
    /\ fault = "none"
    /\ last = [sys |-> "end_frame"]
    /\ \E e \in FoodTimers, dt \in Deltas(TimersInit) :
          /\ timers = [Clocked(TimersInit, dt) EXCEPT !.food = e]
          /\ IF e = FoodElapsed
             THEN /\ now = SplashTime
                  /\ worldEvents = <<SpawnFood(TRUE)>>
                  /\ pc = [todo |-> PopSchedule, schedule |-> PopSchedule,
                           limit |-> MaxPopFrames, popped |-> <<>>]
             ELSE /\ now = SplashTime + 2 * FoodPeriod + FrameDelta * FirstFrames
                            + (e - FirstCarried) + dt
                  /\ worldEvents = <<>>
                  /\ pc = [todo |-> PopSchedule, schedule |-> PopSchedule,
                           limit |-> MaxPopFrames,
                           popped |-> <<[at |-> now - (e - FirstCarried) - dt,
                                         carried |-> FirstCarried,
                                         gap |-> FoodPeriod]>>]
    /\ data = GraphDataFromAnthill(AntHillDefault, SplashTime)

PopNext ==
    \/ spawn_food
    \/ pop_food
    \/ apply_buffers
    \/ end_frame

PopSpec == PopInit /\ [][PopNext]_vars

-----------------------------------------------------------------------------
(* C32 *)

\* pop_food runs, and sends its events
Popping == Runs("pop_food") /\ pc'.todo = Tail(pc.todo)

Pops == worldEvents' # worldEvents

\* C32 (as amended): the interval between periodic food spawns does not
\* shrink with session time.  The FoodTimer has the fixed period of 19 s: a
\* periodic spawn comes in the first frame at which the time since the
\* periodic spawn before, plus the time the timer carried over that spawn,
\* has reached 19 s, and the timer carries the rest over again.  Between two
\* such frames pop_food sends nothing.
C32_FixedPeriod ==
    [][Popping /\ pc.popped # <<>> =>
          LET gap == now - pc.popped[1].at
              run == gap + pc.popped[1].carried
          IN  IF Pops
              THEN /\ run >= FoodPeriod
                   /\ run - timers.delta < FoodPeriod
                   /\ timers'.food = run % FoodPeriod
                   /\ worldEvents' = worldEvents \o
                                        [i \in 1..FoodEventsPerPop |-> SpawnFood(FALSE)]
                   /\ pc'.popped = <<[at |-> now, carried |-> run % FoodPeriod,
                                      gap |-> gap]>>
              ELSE /\ run < FoodPeriod
                   /\ timers'.food = run
                   /\ pc'.popped = pc.popped]_vars

\* Two periodic spawns, one period apart, in a session of even frames
C32_Witness ==
    /\ last.sys = "pop_food"
    /\ last.fired
    /\ pc.popped # <<>>
    /\ pc.popped[1].gap = FoodPeriod
    /\ pc.popped[1].at = now
    /\ timers.stalls = 0

\* C32 (as stated): the interval between two consecutive periodic spawns of
\* a session is at least 5 s, and at most the interval between the two
\* consecutive periodic spawns before
C32_ShrinkingInterval ==
    [][Popping /\ Pops /\ pc.popped # <<>> =>
          /\ now - pc.popped[1].at >= 5 * Second
          /\ pc.popped[1].gap > 0 => now - pc.popped[1].at <= pc.popped[1].gap]_vars

-----------------------------------------------------------------------------
(* The steering step of move_ants and move_anteaters, on vectors of the     *)
(* ground plane <<x, z>>: velocities in units of 0.01, the steer strength   *)
(* in units of 0.01, directions as vectors of length 5, dt in units of      *)
(* 0.01 s.  A value that is no multiple of the unit is rounded towards 0.   *)

MaxVelocityFrames == 1

AntMaxSpeed == 25
AntEaterMaxSpeed == 18
SteerStrength == 200

LengthSquared(v) == v[1] * v[1] + v[2] * v[2]

\* a / b rounded towards 0
Quot(a, b) == IF a >= 0 THEN a \div b ELSE -((-a) \div b)

RECURSIVE Root(_, _)
Root(n, x) ==
    LET y == (x + n \div x) \div 2
    IN  IF y >= x THEN x ELSE Root(n, y)

\* The length of a vector of squared length n, rounded up
Length(n) ==
    LET r == IF n = 0 THEN 0 ELSE Root(n, n)
    IN  IF r * r = n THEN r ELSE r + 1

\* Vec3::clamp_length_max
clamp_length_max(v, max) ==
    IF LengthSquared(v) > max * max
    THEN <<Quot(v[1] * max, Length(LengthSquared(v))),
           Quot(v[2] * max, Length(LengthSquared(v)))>>
    ELSE v

\* The values Vec3::normalize gives desired_direction
Directions ==
    {d \in (-5..5) \X (-5..5) : LengthSquared(d) = 25}

\* The steering step with a fault: the velocity is clamped before the
\* acceleration is added
SteeredClampedFirst(velocity, desired_direction, max_speed, steer_strength, dt) ==
    LET desired_velocity == <<Quot(desired_direction[1] * max_speed, 5),
                              Quot(desired_direction[2] * max_speed, 5)>>
        desired_steering_force ==
            <<Quot((desired_velocity[1] - velocity[1]) * steer_strength, 100),
              Quot((desired_velocity[2] - velocity[2]) * steer_strength, 100)>>
        acceleration == clamp_length_max(desired_steering_force, steer_strength)
        clamped == clamp_length_max(velocity, max_speed)
    IN  [acceleration |-> acceleration,
         velocity |-> <<clamped[1] + Quot(acceleration[1] * dt, 100),
                        clamped[2] + Quot(acceleration[2] * dt, 100)>>]

\* The steering step: the acceleration applied and the new velocity
Steered(velocity, desired_direction, max_speed, steer_strength, dt) ==
    LET desired_velocity == <<Quot(desired_direction[1] * max_speed, 5),
                              Quot(desired_direction[2] * max_speed, 5)>>
        desired_steering_force ==
            <<Quot((desired_velocity[1] - velocity[1]) * steer_strength, 100),
              Quot((desired_velocity[2] - velocity[2]) * steer_strength, 100)>>
        acceleration == clamp_length_max(desired_steering_force, steer_strength)
    IN  [acceleration |-> acceleration,
         velocity |-> clamp_length_max(
                         <<velocity[1] + Quot(acceleration[1] * dt, 100),
                           velocity[2] + Quot(acceleration[2] * dt, 100)>>,
                         max_speed)]

VelocitySchedule == <<"steer_ants", "steer_anteaters">>

\* The velocities an agent is taken up with: at rest (as spawned), at full
\* speed, and faster than any max_speed
Velocities == {<<0, 0>>, <<0 - AntEaterMaxSpeed, 0>>, <<30, 40>>}

\* The steer strengths and the top speeds of a run: none, those of the code,
\* four times as much
Strengths == {0, SteerStrength, 4 * SteerStrength}
Speeds(max_speed) == {0, max_speed, 4 * max_speed}

VelocityInit ==
    /\ state = "Playing"
    /\ hill = AntHillDefault
    /\ data = GraphDataFromAnthill(AntHillDefault, SplashTime)
    /\ bonuses = BonusesDefault
    /\ hillEvents = <<>>
    /\ worldEvents = <<>>
    /\ heaps = <<>>
    /\ pellets = <<>>
    /\ cmds = <<>>
    /\ nextId = 3
    /\ \E v \in Velocities, k \in {1, 2, 3} :
          /\ ants = <<[id |-> 1, velocity |-> v,
                       max_speed |-> CHOOSE m \in Speeds(AntMaxSpeed) :
                                        Cardinality({n \in Speeds(AntMaxSpeed) : n < m}) = k - 1,
                       steer_strength |-> CHOOSE f \in Strengths :
                                        Cardinality({n \in Strengths : n < f}) = k - 1]>>
          /\ anteaters = <<[id |-> 2, velocity |-> v,
                            max_speed |-> AntEaterMaxSpeed,
                            steer_strength |-> SteerStrength]>>
    /\ \E dt \in Deltas(TimersInit) : timers = Clocked(TimersInit, dt)
    /\ now = SplashTime
    /\ frame = 0
    /\ pc = [todo |-> VelocitySchedule, schedule |-> VelocitySchedule,
             limit |-> MaxVelocityFrames]
    /\ fault = "none"
    /\ last = [sys |-> "restart_game"]

\* move_ants: desired_direction is turned at random and normalized, then
\* the velocity is steered
steer_ants ==
    /\ Runs("steer_ants")
    /\ \E d \in Directions :
          LET r == [i \in DOMAIN ants |->
                      Steered(ants[i].velocity, d, ants[i].max_speed,
                              ants[i].steer_strength, timers.delta)]
          IN  /\ ants' = [i \in DOMAIN ants |->
                             [ants[i] EXCEPT !.velocity = r[i].velocity]]
              /\ last' = [sys |-> "steer_ants", desired_direction |-> d,
                          acceleration |-> [i \in DOMAIN ants |-> r[i].acceleration]]
    /\ pc' = Done
    /\ UNCHANGED <<state, hill, data, bonuses, hillEvents, worldEvents, heaps,
                   pellets, anteaters, cmds, nextId, timers, now, frame, fault>>

\* move_anteaters: the same step with the constants of the predator
steer_anteaters ==
    /\ Runs("steer_anteaters")
    /\ \E d \in Directions :
          LET r == [i \in DOMAIN anteaters |->
                      Steered(anteaters[i].velocity, d, anteaters[i].max_speed,
                              anteaters[i].steer_strength, timers.delta)]
          IN  /\ anteaters' = [i \in DOMAIN anteaters |->
                                  [anteaters[i] EXCEPT !.velocity = r[i].velocity]]
              /\ last' = [sys |-> "steer_anteaters", desired_direction |-> d,
                          acceleration |-> [i \in DOMAIN anteaters |-> r[i].acceleration]]
    /\ pc' = Done
    /\ UNCHANGED <<state, hill, data, bonuses, hillEvents, worldEvents, heaps,
                   pellets, ants, cmds, nextId, timers, now, frame, fault>>

VelocityNext ==
    \/ steer_ants
    \/ steer_anteaters
    \/ end_frame

VelocitySpec == VelocityInit /\ [][VelocityNext]_vars

-----------------------------------------------------------------------------
(* C33 *)

\* The agents whose velocity the step has steered
SteeredAgents ==
    IF last.sys = "steer_ants" THEN ants
    ELSE IF last.sys = "steer_anteaters" THEN anteaters ELSE <<>>

-----------------------------------------------------------------------------
(* C34 *)

RECURSIVE FoodPicked(_)
\* The sum of food_picked over the predators es
FoodPicked(es) ==
    IF es = <<>> THEN 0 ELSE Head(es).food_picked + FoodPicked(Tail(es))

\* The forager pickups among the steps of a pass of move_ants
Pickups(steps) ==
    Cardinality({s \in DOMAIN steps : /\ IsPickFood(steps[s].from)
                                      /\ steps[s].to = HasFood})

\* The pellets of the world ps that the queued commands cs take out of it
Taken(cs, ps) ==
    {cs[c].id : c \in {k \in DOMAIN cs : /\ cs[k].op \in {"despawn", "eat"}
                                         /\ cs[k].id \in Ids(ps)}}

\* C34: every pellet is consumed at most once.  Each forager pickup
\* (PickFood -> HasFood) and each pellet a predator adds to its count of
\* food eaten takes a pellet of its own out of the world: one that is in the
\* world and that neither a forager nor a predator has taken earlier in the
\* same tick.  So the pickups plus the food eaten by all predators never
\* exceed the pellets ever spawned.
C34_PelletConsumedOnce ==
    [][/\ (Runs("move_ants") /\ last'.sys = "move_ants") =>
             Pickups(last'.steps)
                <= Cardinality(Taken(cmds', pellets) \ Taken(cmds, pellets))
       /\ (Runs("anteaters_consume_food") /\ last'.sys = "anteaters_consume_food") =>
             FoodPicked(anteaters') - FoodPicked(anteaters)
                <= Cardinality(Taken(cmds', pellets) \ Taken(cmds, pellets))]_vars

-----------------------------------------------------------------------------
(* C35 *)

\* The pellets the foragers as hold in PickFood
Held(as) == {as[k].state[3] : k \in {i \in DOMAIN as : IsPickFood(as[i].state)}}

\* C35: at a tick boundary the pellet of every live forager in
\* PickFood(_, p) is in the world and has targeted = TRUE: a predator that
\* eats a reserved pellet leaves no forager in PickFood for it; and a
\* forager goes to HasFood only for a pellet that is in the world.
C35_ReservedPelletExists ==
    [][/\ TickBoundary' =>
             \A p \in Held(ants') : p \in Ids(pellets') /\ Flag(pellets', p)
       /\ (Runs("move_ants") /\ last'.sys = "move_ants") =>
             \A s \in DOMAIN last'.steps :
                (IsPickFood(last'.steps[s].from) /\ last'.steps[s].to = HasFood)
                    => last'.steps[s].from[3] \in Ids(pellets)]_vars

-----------------------------------------------------------------------------
(* Two predators on their way to the colony and the foragers they meet:    *)
(* the frames of ants.rs and ant_eaters.rs, stage by stage                  *)

MaxPackFrames == 2

\* The world with predators at the cells e1 and e2 and wandering foragers at
\* the cells of as
Pack(e1, e2, as) ==
    ApplyCommands(
        [ants |-> <<>>, heaps |-> <<>>, pellets |-> <<>>, anteaters |-> <<>>,
         nextId |-> 1, fault |-> "none"],
        <<[op |-> "spawn_anteater", pos |-> e1],
          [op |-> "spawn_anteater", pos |-> e2]>>
        \o [i \in DOMAIN as |->
               [op |-> "spawn",
                creature |-> [KeyCreature(SplashTime) EXCEPT !.pos = as[i]]]])

PackInit ==
    /\ state = "Playing"
    /\ hill = AntHillDefault
    /\ data = GraphDataFromAnthill(AntHillDefault, SplashTime)
    /\ bonuses = BonusesDefault
    /\ hillEvents = <<>>
    /\ worldEvents = <<>>
    /\ \E e1 \in 2..MaxPos, e2 \in 2..MaxPos :
          \E as \in {<<a>> : a \in 0..MaxPos} \cup {<<0, a>> : a \in 0..MaxPos} :
             LET w == Pack(e1, e2, as)
             IN  /\ e1 <= e2
                 /\ ants = w.ants
                 /\ heaps = w.heaps
                 /\ pellets = w.pellets
                 /\ anteaters = w.anteaters
                 /\ nextId = w.nextId
    /\ cmds = <<>>
    /\ \E dt \in Deltas(TimersInit) : timers = Clocked(TimersInit, dt)
    /\ now = SplashTime + SamplePeriod
    /\ frame = 0
    /\ pc = [todo |-> ReservedSchedule, schedule |-> ReservedSchedule,
             limit |-> MaxPackFrames]
    /\ fault = "none"
    /\ last = [sys |-> "end_frame"]

PackSpec == PackInit /\ [][ReservedNext]_vars

-----------------------------------------------------------------------------
(* C36 *)

RECURSIVE AntsKilled(_)
\* The sum of ant_killed over the predators es
AntsKilled(es) ==
    IF es = <<>> THEN 0 ELSE Head(es).ant_killed + AntsKilled(Tail(es))

\* The foragers of as that the queued commands cs destroy
Destroyed(cs, as) ==
    {cs[c].id : c \in {k \in DOMAIN cs : /\ cs[k].op = "despawn_recursive"
                                         /\ cs[k].id \in Ids(as)}}

\* C36: each forager killed by predators is counted once.  In a pass of
\* anteaters_consume_ants the sum of ants_killed over all predators grows by
\* the number of foragers the pass destroys, also when two predators are
\* within kill range of the same forager; so the sum over all predators
\* equals the number of foragers destroyed by predators.
C36_KillCountedOnce ==
    [][(Runs("anteaters_consume_ants") /\ last'.sys = "anteaters_consume_ants") =>
          AntsKilled(anteaters') - AntsKilled(anteaters)
             = Cardinality(Destroyed(cmds', ants) \ Destroyed(cmds, ants))]_vars

-----------------------------------------------------------------------------
(* C37 *)

\* C37: in every state of a session the current population (the foragers
\* alive, and the newest sample of the history) is at most total spawned,
\* and max population is at most total spawned.
C37_PopulationWithinTotal ==
    /\ Len(ants) <= data.total_ants
    /\ data.nb_ants[HistorySize] <= data.total_ants
    /\ data.max_ants <= data.total_ants

-----------------------------------------------------------------------------
(* C38 *)

\* evolve_hills runs and its timer finishes
EvolveTicks ==
    /\ Runs("evolve_hills")
    /\ last'.sys = "evolve_hills"
    /\ last'.fired

\* C38: an evolution tick changes only the colony genome: worker food,
\* queen food, the spawn wave size, the mutation bias and the contents and
\* order of the queue of returned genomes are the same after the tick, and
\* so is all the rest of the colony and of the world; the tick that follows
\* averages the same queue again.
C38_EvolveChangesGenomeOnly ==
    [][EvolveTicks =>
          /\ hill'.food = hill.food
          /\ hill'.queen_food = hill.queen_food
          /\ hill'.spawn_per_wave = hill.spawn_per_wave
          /\ hill'.mutation_improvement = hill.mutation_improvement
          /\ hill'.gatherer_genes = hill.gatherer_genes
          /\ hill' = [hill EXCEPT !.gene = hill'.gene]
          /\ Evolved(hill').gene.wander_strength
                = MeanGene(hill'.gene, 1, hill.gatherer_genes).wander_strength
          /\ UNCHANGED <<state, data, bonuses, hillEvents, worldEvents, ants,
                         heaps, pellets, anteaters, cmds, nextId>>]_vars

\* An evolution tick has averaged a queue of returned genomes into a genome
\* that differs from the one before, and the queue is as it was
C38_Witness ==
    /\ last.sys = "evolve_hills"
    /\ last.fired
    /\ last.hill.gatherer_genes # <<>>
    /\ hill.gatherer_genes = last.hill.gatherer_genes
    /\ hill.gene # last.hill.gene
    /\ hill = [last.hill EXCEPT !.gene = hill.gene]

-----------------------------------------------------------------------------
(* Generations: a colony at the floors of its genome after so many rounds  *)
(* of spawning a forager, taking its delivery and evolving, and the ledger  *)
(* systems applied to it and to one pending event                           *)

MaxGenerations == 3

RECURSIVE Descended(_, _)
\* The colony h after k generations, in each of which a forager spawned with
\* the lowest noise has delivered and the EvolveTimer has finished
Descended(h, k) ==
    IF k = 0 THEN h
    ELSE LET parent == Descended(h, k - 1)
         IN  Evolved([parent EXCEPT !.gatherer_genes =
                         PushGene(@, <<MutatedGene(parent.gene, LowNoise)>>)])

GenerationsInit ==
    /\ state = "Playing"
    /\ \E k \in 0..MaxGenerations, f \in {0, SpawnThreshold, DefaultFood} :
          hill = [Descended([AntHillDefault EXCEPT !.gene = FloorGene], k)
                     EXCEPT !.food = f]
    /\ data = GraphDataFromAnthill(hill, SplashTime)
    /\ bonuses = BonusesDefault
    /\ hillEvents \in LedgerEvents(hill)
    /\ worldEvents = <<>>
    /\ ants = <<>>
    /\ heaps = <<>>
    /\ pellets = <<>>
    /\ anteaters = <<>>
    /\ cmds = <<>>
    /\ nextId = 1
    /\ \E dt \in Deltas(TimersInit) : timers = Clocked(TimersInit, dt)
    /\ now = SplashTime
    /\ frame = 0
    /\ pc = [todo |-> HillSchedule, schedule |-> HillSchedule,
             limit |-> MaxLedgerFrames]
    /\ fault = "none"
    /\ last = [sys |-> "restart_game"]

GenerationsSpec == GenerationsInit /\ [][LedgerNext]_vars

-----------------------------------------------------------------------------
(* C39 *)

\* The genomes of the foragers spawned: those in the world and those whose
\* spawn is queued
SpawnedGenes ==
    {ants[i].gene : i \in DOMAIN ants}
    \cup {cmds[c].creature.gene : c \in {k \in DOMAIN cmds : cmds[k].op = "spawn"}}

====
